---- MODULE Spec2Model ----
(***************************************************************************)
(* Voice biometrics of voxmaster-ai/backend: speaker embeddings,           *)
(* similarity, centroid aggregation, the signature store and the enroll /  *)
(* verify / delete request handlers.                                       *)
(*                                                                         *)
(* Numbers.  The code computes in floating point.  The model computes the  *)
(* same expressions exactly, over the reals that occur:                    *)
(*   - a vector is  n / sqrt(q)  with n a tuple of integers and q > 0, so  *)
(*     that x / ||x|| is representable for every integer direction;        *)
(*   - a scalar is  c + s*sqrt(p/r)  with c an integer, s in {-1,0,1} and  *)
(*     p/r a reduced fraction (a "Num"), which is closed under what        *)
(*     compute_similarity does with a dot product and two norms.           *)
(* The 1e-8 added to a norm before dividing is neglected for a nonzero     *)
(* norm and decides the result (0 / 1e-8 = 0) for a zero norm.             *)
(***************************************************************************)
EXTENDS Integers, Sequences, FiniteSets, TLC

VARIABLES
    inp,            \* arguments of the pure function under check
    out,            \* its result (None before the call)
    demo_mode,      \* DatabaseService.demo_mode
    librosa,        \* TRUE iff `import librosa` succeeds in this process
    store,          \* voice_signatures: id -> row (demo_store / table)
    nextId,         \* number of ids handed out so far (uuid4 / gen_random)
    verifications,  \* verification_history, newest first
    proc,           \* one record per in-flight request handler
    last,           \* the last response sent, with its request
    nreq,           \* requests accepted so far
    pool,           \* DatabaseService.pool: None or the connection pool
    demo_store,     \* DatabaseService.demo_store: None or the signatures in it
    tmpfiles,       \* the temporary files that exist, by the request that made them
    blobs,          \* the audio blobs in storage, by the request that uploaded them
    analyses        \* the analyses table, by the request that created the row

vars == <<inp, out, demo_mode, librosa, store, nextId, verifications, proc, last, nreq,
          pool, demo_store, tmpfiles, blobs, analyses>>

pureVars == <<inp, out>>
connVars == <<pool, demo_store>>
fileVars == <<tmpfiles, blobs, analyses>>
sysVars == <<demo_mode, librosa, store, nextId, verifications, proc, last, nreq,
             connVars, fileVars>>

(***************************************************************************)
(* Bounds of the model.                                                    *)
(***************************************************************************)
Dim == 4          \* embedding dimension of the model (256 in the code)
MaxSamples == 3   \* longest embedding list handed to aggregate_embeddings
MaxFiles == 3     \* most files in one enroll request
MaxSigs == 2      \* most signatures ever created in one behaviour
MaxReq == 4       \* most requests accepted in one behaviour
NProcs == 2       \* request handlers in flight at once
MaxFrames == 5    \* most frames of an audio buffer

\* Python's None: a record, so that it compares with every value.
None == [none |-> TRUE]

(***************************************************************************)
(* Integer helpers.                                                        *)
(***************************************************************************)
Abs(x) == IF x < 0 THEN -x ELSE x

Sgn(x) == IF x > 0 THEN 1 ELSE IF x < 0 THEN -1 ELSE 0

Max2(a, b) == IF a >= b THEN a ELSE b

Min2(a, b) == IF a <= b THEN a ELSE b

RECURSIVE Gcd(_, _)
Gcd(a, b) == IF b = 0 THEN Abs(a) ELSE Gcd(b, a % b)

\* Floor of the square root, by Newton's iteration from above.
RECURSIVE SqrtFrom(_, _)
SqrtFrom(n, x) ==
    LET y == (x + n \div x) \div 2
    IN IF y >= x THEN x ELSE SqrtFrom(n, y)

ISqrt(n) == IF n <= 0 THEN 0 ELSE SqrtFrom(n, n)

IsSquare(n) == n >= 0 /\ ISqrt(n) * ISqrt(n) = n

RECURSIVE SumSeq(_)
SumSeq(s) == IF s = <<>> THEN 0 ELSE Head(s) + SumSeq(Tail(s))

(***************************************************************************)
(* Num: the real number c + s*sqrt(p/r).                                   *)
(***************************************************************************)
Surd(c, s, p, r) ==
    IF p = 0 \/ s = 0
    THEN [c |-> c, s |-> 0, p |-> 0, r |-> 1]
    ELSE LET g == Gcd(p, r)
             pp == p \div g
             rr == r \div g
         IN IF IsSquare(pp) /\ rr = 1
            THEN [c |-> c + s * ISqrt(pp), s |-> 0, p |-> 0, r |-> 1]
            ELSE [c |-> c, s |-> s, p |-> pp, r |-> rr]

Rat(c) == [c |-> c, s |-> 0, p |-> 0, r |-> 1]

\* x > 0 for a Num x: c + s*sqrt(p/r) > 0.
NumPos(x) ==
    IF x.s = 0 THEN x.c > 0
    ELSE IF x.s = 1 THEN (x.c >= 0 \/ x.p > x.c * x.c * x.r)
    ELSE (x.c > 0 /\ x.c * x.c * x.r > x.p)

\* x - y, defined when the two radicals are the same or one is absent.
NumSubOk(x, y) ==
    \/ x.s = 0
    \/ y.s = 0
    \/ (x.p = y.p /\ x.r = y.r)

NumSub(x, y) ==
    IF y.s = 0 THEN [x EXCEPT !.c = x.c - y.c]
    ELSE IF x.s = 0 THEN [c |-> x.c - y.c, s |-> -y.s, p |-> y.p, r |-> y.r]
    ELSE IF x.s = y.s THEN Rat(x.c - y.c)
    ELSE Surd(x.c - y.c, x.s, 4 * x.p, x.r)

\* x > y.  When both radicals are present and differ, the rational parts
\* are equal in every comparison the code makes (both operands are then
\* similarity scores 50 + 50*cos); no other case is defined.
NumGT(x, y) ==
    IF NumSubOk(x, y) THEN NumPos(NumSub(x, y))
    ELSE IF x.c = y.c THEN x.s * x.p * y.r > y.s * y.p * x.r
    ELSE CHOOSE b \in {} : TRUE

NumNeg(x) == [x EXCEPT !.c = -x.c, !.s = -x.s]

NumGE(x, y) == ~NumGT(y, x)

\* (x + k) * f for integers k, f >= 0.
NumAddMul(x, k, f) == Surd((x.c + k) * f, x.s, x.p * f * f, x.r)

\* max(0, x), min(hi, x) as Python's max/min give them.
NumMax0(x) == IF NumGT(x, Rat(0)) THEN x ELSE Rat(0)

(***************************************************************************)
(* Vectors: n / sqrt(q).                                                   *)
(***************************************************************************)
RECURSIVE DotFrom(_, _, _)
DotFrom(a, b, i) == IF i > Len(a) THEN 0 ELSE a[i] * b[i] + DotFrom(a, b, i + 1)

Dot(a, b) == DotFrom(a, b, 1)

RECURSIVE GcdFrom(_, _)
GcdFrom(a, i) == IF i > Len(a) THEN 0 ELSE Gcd(a[i], GcdFrom(a, i + 1))

ZeroTuple == [i \in 1..Dim |-> 0]

ZeroVec == [n |-> ZeroTuple, q |-> 1]

Vec(n) == [n |-> n, q |-> 1]

\* np.linalg.norm(x), as a Num: sqrt(n.n / q).
Norm(v) == Surd(0, 1, Dot(v.n, v.n), v.q)

IsUnit(v) == Dot(v.n, v.n) = v.q

IsZero(v) == Dot(v.n, v.n) = 0

\* Two vectors denote the same point of R^Dim.
VecEq(v, w) ==
    \A i \in 1..Dim :
        /\ Sgn(v.n[i]) = Sgn(w.n[i])
        /\ v.n[i] * v.n[i] * w.q = w.n[i] * w.n[i] * v.q

\* x / (np.linalg.norm(x) + 1e-8)
L2Normalize(v) ==
    IF IsZero(v) THEN ZeroVec
    ELSE LET g == GcdFrom(v.n, 1)
             m == [i \in 1..Dim |-> v.n[i] \div g]
         IN [n |-> m, q |-> Dot(m, m)]

\* np.pad(features, (0, D - len(features))) if len(features) < D else features[:D]
PadTrunc(f) == [i \in 1..Dim |-> IF i <= Len(f) THEN f[i] ELSE 0]

\* The rational vectors n/d, the only ones the model adds or subtracts.
IsRational(v) == IsSquare(v.q)

\* v and w over a common denominator d: v = a/d, w = b/d.
VSub(v, w) ==
    LET dv == ISqrt(v.q)
        dw == ISqrt(w.q)
    IN [n |-> [i \in 1..Dim |-> v.n[i] * dw - w.n[i] * dv], q |-> v.q * w.q]

(***************************************************************************)
(* services/embeddings.py: compute_similarity.                             *)
(***************************************************************************)
\* Mutant of CosineOf: the second norm is left out of the division.
CosineOverOneNorm(v, w) ==
    LET d == Dot(v.n, w.n)
    IN Surd(0, Sgn(d), d * d, Dot(v.n, v.n) * w.q)

\* similarity = dot_product / (norm1 * norm2), for norm1, norm2 > 0
CosineOf(v, w) ==
    LET d == Dot(v.n, w.n)
    IN Surd(0, Sgn(d), d * d, Dot(v.n, v.n) * Dot(w.n, w.n))

\* Mutant of ZeroNormSimilarity: the lowest cosine, which rescales to 0.
ZeroNormAsOpposite == Rat(-1)

\* The value given to `similarity` when a norm is zero.
ZeroNormSimilarity == Rat(0)

compute_similarity(embedding1, embedding2, metric) ==
    IF metric = "cosine"
    THEN LET norm1 == Norm(embedding1)
             norm2 == Norm(embedding2)
             similarity ==
                 IF NumPos(norm1) /\ NumPos(norm2)
                 THEN CosineOf(embedding1, embedding2)
                 ELSE ZeroNormSimilarity
         IN [ok |-> TRUE, val |-> NumAddMul(similarity, 1, 50)]
    ELSE IF metric = "euclidean"
    THEN LET distance == Norm(VSub(embedding1, embedding2))
         IN [ok |-> TRUE, val |-> NumMax0(NumAddMul(NumNeg(distance), 2, 50))]
    ELSE [ok |-> FALSE, val |-> "ValueError"]
(***************************************************************************)
(* services/embeddings.py: aggregate_embeddings.                           *)
(***************************************************************************)
RECURSIVE ProdDen(_)
ProdDen(es) == IF es = <<>> THEN 1 ELSE ISqrt(Head(es).q) * ProdDen(Tail(es))

\* Mutant of Column: the column next to k is read.
ColumnOffByOne(es, k) ==
    LET D == ProdDen(es)
    IN [i \in 1..Len(es) |-> es[i].n[(k % Dim) + 1] * (D \div ISqrt(es[i].q))]

\* Component k of every embedding of the list, over the common denominator
\* ProdDen(es): the column k of np.array(embeddings).
Column(es, k) ==
    LET D == ProdDen(es)
    IN [i \in 1..Len(es) |-> es[i].n[k] * (D \div ISqrt(es[i].q))]

\* The j-th smallest entry of a sequence of integers (j = 1 is the least).
KthSmallest(s, j) ==
    CHOOSE x \in { s[i] : i \in 1..Len(s) } :
        /\ Cardinality({ i \in 1..Len(s) : s[i] < x }) < j
        /\ Cardinality({ i \in 1..Len(s) : s[i] <= x }) >= j

\* np.mean(embeddings_array, axis=0)
MeanOf(es) ==
    LET D == ProdDen(es)
        N == Len(es)
    IN [n |-> [k \in 1..Dim |-> SumSeq(Column(es, k))], q |-> (D * N) * (D * N)]

\* Mutant of MedianOf: the middle entries by position, of unsorted columns.
MedianOfUnsorted(es) ==
    LET D == ProdDen(es)
        N == Len(es)
        lo == (N + 1) \div 2
        hi == (N + 2) \div 2
    IN [n |-> [k \in 1..Dim |-> Column(es, k)[lo] + Column(es, k)[hi]],
        q |-> (2 * D) * (2 * D)]

\* np.median(embeddings_array, axis=0): the middle entry of each sorted
\* column, or the mean of the two middle entries when the list is even.
MedianOf(es) ==
    LET D == ProdDen(es)
        N == Len(es)
        lo == (N + 1) \div 2
        hi == (N + 2) \div 2
    IN [n |-> [k \in 1..Dim |->
                  KthSmallest(Column(es, k), lo) + KthSmallest(Column(es, k), hi)],
        q |-> (2 * D) * (2 * D)]

aggregate_embeddings(embeddings, method) ==
    IF embeddings = <<>>
    THEN [ok |-> FALSE, val |-> "ValueError"]
    ELSE LET centroid ==
                 IF method = "mean" THEN MeanOf(embeddings)
                 ELSE IF method = "median" THEN MedianOf(embeddings)
                 ELSE MeanOf(embeddings)
         IN [ok |-> TRUE, val |-> L2Normalize(centroid)]

(***************************************************************************)
(* services/embeddings.py: calculate_embedding_quality, extract_embedding. *)
(* An audio clip is what these functions read of it: the feature vector    *)
(* (MFCC means, MFCC deviations, chroma means) the mock embedding is built *)
(* from, its duration in ms, the share of its samples with |x| > 0.99 in   *)
(* 1/1000, and its RMS in 1/10000.  Scores are in 1/10000 of a point.      *)
(***************************************************************************)
QUnit == 10000

Clip(f, d, c, r) == [features |-> f, dur |-> d, clip |-> c, rms |-> r]

\* Mutant of calculate_embedding_quality: a clip of exactly 1 s is scored as
\* a short one.
calculate_embedding_quality_short(audio) ==
    LET duration_score ==
            IF audio.dur <= 1000 THEN audio.dur * 50
            ELSE IF audio.dur <= 4000 THEN 100000
            ELSE Max2(50000, 100000 - (audio.dur - 4000) * 5)
        clipping_score == 100000 - audio.clip * 200
        rms_score == Min2(100000, audio.rms * 100)
        quality == 4 * duration_score + 3 * clipping_score + 3 * rms_score
    IN Max2(0, Min2(100 * QUnit, quality))

calculate_embedding_quality(audio) ==
    LET duration_score ==
            IF audio.dur < 1000 THEN audio.dur * 50
            ELSE IF audio.dur <= 4000 THEN 100000
            ELSE Max2(50000, 100000 - (audio.dur - 4000) * 5)
        clipping_score == 100000 - audio.clip * 200
        rms_score == Min2(100000, audio.rms * 100)
        quality == 4 * duration_score + 3 * clipping_score + 3 * rms_score
    IN Max2(0, Min2(100 * QUnit, quality))

\* np.random.randn(256): any vector; these stand for the ones drawn.
RandomVectors ==
    { Vec(PadTrunc(f)) : f \in { <<1, 2, 0, -1>>, <<-2, 0, 1>> } }

\* generate_mock_embedding with librosa importable.
MockEmbedding(audio) == L2Normalize(Vec(PadTrunc(audio.features)))

\* The results extract_embedding may return for a clip: one with librosa,
\* any random vector with quality 85.0 without it.
extract_embedding(audio, haveLibrosa) ==
    IF haveLibrosa
    THEN { [embedding |-> MockEmbedding(audio),
            quality |-> calculate_embedding_quality(audio)] }
    ELSE { [embedding |-> r, quality |-> 85 * QUnit] : r \in RandomVectors }

(***************************************************************************)
(* services/database.py: the voice_signatures store and the verification   *)
(* history.  The store is the sequence of rows in creation order; a row's  *)
(* id is never reused.                                                     *)
(***************************************************************************)
\* a / b as a reduced fraction.
Frac(a, b) == LET g == Gcd(a, b) IN [num |-> a \div g, den |-> b \div g]

RowIds(st) == { st[i].id : i \in 1..Len(st) }

RowOf(st, id) == st[CHOOSE i \in 1..Len(st) : st[i].id = id]

\* create_voice_signature: one INSERT (one dict assignment in demo mode).
DbCreate(st, id, name, embedding, samples_count, quality_score, has_singing) ==
    Append(st, [id |-> id,
                name |-> name,
                embedding |-> embedding,
                samples_count |-> samples_count,
                quality_score |-> quality_score,
                has_spoken_centroid |-> TRUE,
                has_singing_centroid |-> has_singing,
                status |-> "active"])

\* The id that stands for no id (None, or the empty form field).
NoId == 0

\* get_voice_signature: the row with this id whatever its status, or None.
DbGet(st, id) == IF id \in RowIds(st) THEN RowOf(st, id) ELSE None

RECURSIVE Reverse(_)
Reverse(s) == IF s = <<>> THEN <<>> ELSE Append(Reverse(Tail(s)), Head(s))

\* Mutant of DbList: the status filter is dropped.
DbListAnyStatus(st, status, demo) ==
    LET ids == [i \in 1..Len(st) |-> st[i].id]
    IN IF demo THEN ids ELSE Reverse(ids)

\* list_voice_signatures(status): the ids of the rows with that status, in
\* dict order in demo mode and ORDER BY created_at DESC otherwise.
DbList(st, status, demo) ==
    LET ids == [i \in 1..Len(st) |-> st[i].id]
        keep(id) == RowOf(st, id).status = status
        kept == SelectSeq(ids, keep)
    IN IF demo THEN kept ELSE Reverse(kept)

\* An optional argument: None, or Some(x).
Some(x) == [some |-> x]

\* update_voice_signature: each argument that is not None replaces its
\* field; the others are left as they are.
DbUpdate(st, id, embedding, samples_count, quality_score, has_singing) ==
    [i \in 1..Len(st) |->
        IF st[i].id # id THEN st[i]
        ELSE [st[i] EXCEPT
                 !.embedding = IF embedding # None THEN embedding.some ELSE @,
                 !.samples_count = IF samples_count # None THEN samples_count.some ELSE @,
                 !.quality_score = IF quality_score # None THEN quality_score.some ELSE @,
                 !.has_singing_centroid = IF has_singing # None THEN has_singing.some ELSE @]]

\* delete_voice_signature: a soft delete.
DbDelete(st, id) ==
    [i \in 1..Len(st) |-> IF st[i].id = id THEN [st[i] EXCEPT !.status = "deleted"] ELSE st[i]]

\* delete_all_signatures: DELETE FROM voice_signatures / dict.clear().
DbDeleteAll(st) == <<>>

\* create_verification: the record put at the head of the history.  The
\* signature's name is looked up at insertion in demo mode and by the JOIN
\* of list_verifications otherwise, so it is left out of the stored record.
DbCreateVerification(log, signature_id, match, confidence, anti_spoofing) ==
    <<[signature_id |-> signature_id,
       match |-> match,
       confidence |-> confidence,
       anti_spoofing |-> anti_spoofing]>> \o log

(***************************************************************************)
(* The part of the state a specification does not use stays as built.      *)
(***************************************************************************)
ConnIdle == pool = None /\ demo_store = None

FilesIdle == tmpfiles = {} /\ blobs = {} /\ analyses = {}

PureIdle == inp = None /\ out = None

SysIdle ==
    /\ demo_mode = FALSE
    /\ librosa = TRUE
    /\ store = <<>>
    /\ nextId = 0
    /\ verifications = <<>>
    /\ proc = <<>>
    /\ last = None
    /\ nreq = 0
    /\ ConnIdle
    /\ FilesIdle

(***************************************************************************)
(* routers/biometrics.py, routers/settings.py: the request handlers.       *)
(* A handler runs from one `await` that suspends to the next in one step.  *)
(* With a connection pool every db call suspends; in demo mode no db call  *)
(* does, so a handler that has reached its first db call runs to its       *)
(* response before any other handler moves.                                *)
(***************************************************************************)
Procs == 1..NProcs

MinSamples == 3

MatchThreshold == 70

LivenessQuality == 50

IdleProc ==
    [pc |-> "idle", kind |-> "none", sid |-> NoId,
     files |-> <<>>, name |-> "", include_singing |-> FALSE,
     embeddings |-> <<>>, quality_scores |-> <<>>,
     test_embedding |-> None, quality |-> 0,
     signatures |-> <<>>, best_confidence |-> Rat(0), matched_signature |-> None,
     hist |-> {}]

\* The clips uploaded in the system runs: of quality 100, of quality exactly
\* 50 (a silent clip of 14 s) and of quality 70 (a silent clip of 2 s).
SysClips ==
    { Clip(<<3>>, 3000, 0, 1000),
      Clip(<<2, 1, 2, 4>>, 14000, 0, 0),
      Clip(<<-3>>, 2000, 0, 0) }

Names == {"ann"}

SingFlags == {FALSE}

SigIds == 1..MaxSigs

\* The ids the verify requests name: the first id ever given, which is that
\* of no row before the first enrollment and after a purge.
VerifyIds == {1}

\* The uploads of the enroll requests: too few recordings, MaxFiles
\* recordings of one clip, and MaxFiles recordings of two clips.
EnrollUploads ==
    { [i \in 1..(MaxFiles - 1) |-> Clip(<<3>>, 3000, 0, 1000)],
      [i \in 1..MaxFiles |-> Clip(<<2, 1, 2, 4>>, 14000, 0, 0)],
      [i \in 1..MaxFiles |->
          IF i < MaxFiles THEN Clip(<<3>>, 3000, 0, 1000)
                          ELSE Clip(<<2, 1, 2, 4>>, 14000, 0, 0)] }

\* What the checks read of a handler that has responded: its request, its
\* probe, the stores it lived through and the response.
Responded(pr, resp) ==
    [kind |-> pr.kind, sid |-> pr.sid, files |-> pr.files,
     test_embedding |-> pr.test_embedding, quality |-> pr.quality,
     hist |-> pr.hist, resp |-> resp]

\* The handler is between two db calls.
DbPcs == {"v_get", "v_list", "v_fetch", "v_record", "e_save", "d_get", "d_del", "a_del"}

Runnable(p) == demo_mode => \A q \in Procs \ {p} : proc[q].pc \notin DbPcs

InFlight(pr) == pr.pc # "idle"

\* A request is taken by the first worker that is free.
Accepting(p) ==
    /\ proc[p].pc = "idle"
    /\ \A q \in Procs : q < p => proc[q].pc # "idle"
    /\ Runnable(p)
    /\ nreq < MaxReq

\* History kept for the checks: the stores a verify call has lived through.
Seen(p, st, pr) ==
    IF pr.kind = "verify" /\ InFlight(pr) THEN [pr EXCEPT !.hist = @ \cup {st}] ELSE pr

\* proc with process p replaced by pr and the store becoming st.
Moved(p, pr, st) ==
    [q \in Procs |-> IF q = p THEN Seen(q, st, pr) ELSE Seen(q, st, proc[q])]

\* Mutant of Selects: a later candidate of equal confidence replaces the best.
SelectsOnTie(confidence, best_confidence) == NumGE(confidence, best_confidence)

\* if confidence > best_confidence
Selects(confidence, best_confidence) == NumGT(confidence, best_confidence)

\* The body shared by the 1:1 branch and the 1:N loop.
Consider(pr, signature) ==
    IF signature # None /\ signature.embedding # None
    THEN LET confidence ==
                 compute_similarity(pr.test_embedding, signature.embedding, "cosine").val
         IN IF Selects(confidence, pr.best_confidence)
            THEN [pr EXCEPT !.best_confidence = confidence, !.matched_signature = signature]
            ELSE pr
    ELSE pr

\* Mutant of IsMatch: a confidence of exactly the threshold is no match.
IsMatchAbove(best_confidence, matched_signature) ==
    NumGT(best_confidence, Rat(MatchThreshold)) /\ matched_signature # None

\* is_match = best_confidence >= 70.0 and matched_signature is not None
IsMatch(best_confidence, matched_signature) ==
    NumGE(best_confidence, Rat(MatchThreshold)) /\ matched_signature # None

\* Mutant of AntiSpoofing: a quality of exactly 50 verifies liveness.
AntiSpoofingInclusive(quality) ==
    [replay_detected |-> FALSE,
     ai_generated |-> FALSE,
     liveness_verified |-> quality >= LivenessQuality * QUnit]

\* anti_spoofing = {"replay_detected": False, "ai_generated": False,
\*                  "liveness_verified": quality > 50}
AntiSpoofing(quality) ==
    [replay_detected |-> FALSE,
     ai_generated |-> FALSE,
     liveness_verified |-> quality > LivenessQuality * QUnit]

---------------------------------------------------------------------------
\* POST /verify

VerifyStart(p) ==
    /\ Accepting(p)
    /\ \E sid \in {NoId} \cup VerifyIds :
           proc' = [proc EXCEPT ![p] =
                       [IdleProc EXCEPT !.pc = "v_read", !.kind = "verify",
                                        !.sid = sid, !.hist = {store}]]
    /\ nreq' = nreq + 1
    /\ UNCHANGED <<demo_mode, librosa, store, nextId, verifications, last, pureVars, connVars, fileVars>>

\* content = await file.read() ... liveness, matched_signature = None,
\* best_confidence = 0.0, up to the first db call.
VerifyExtract(p) ==
    /\ proc[p].pc = "v_read"
    /\ Runnable(p)
    /\ \E a \in SysClips : \E r \in extract_embedding(a, librosa) :
           proc' = [proc EXCEPT ![p] =
                       [@ EXCEPT !.test_embedding = r.embedding,
                                 !.quality = r.quality,
                                 !.matched_signature = None,
                                 !.best_confidence = Rat(0),
                                 !.pc = IF proc[p].sid # NoId THEN "v_get" ELSE "v_list"]]
    /\ UNCHANGED <<demo_mode, librosa, store, nextId, verifications, last, nreq, pureVars, connVars, fileVars>>

\* 1:1: signature = await db.get_voice_signature(signature_id) and the
\* comparison that follows it.
VerifyGet(p) ==
    /\ proc[p].pc = "v_get"
    /\ Runnable(p)
    /\ proc' = [proc EXCEPT ![p] =
                   [Consider(@, DbGet(store, proc[p].sid)) EXCEPT !.pc = "v_record"]]
    /\ UNCHANGED <<demo_mode, librosa, store, nextId, verifications, last, nreq, pureVars, connVars, fileVars>>

\* 1:N: signatures = await db.list_voice_signatures(status="active")
VerifyList(p) ==
    /\ proc[p].pc = "v_list"
    /\ Runnable(p)
    /\ LET signatures == DbList(store, "active", demo_mode)
       IN proc' = [proc EXCEPT ![p] =
                      [@ EXCEPT !.signatures = signatures,
                                !.pc = IF signatures = <<>> THEN "v_record" ELSE "v_fetch"]]
    /\ UNCHANGED <<demo_mode, librosa, store, nextId, verifications, last, nreq, pureVars, connVars, fileVars>>

\* 1:N: one turn of `for sig in signatures`.
VerifyFetch(p) ==
    /\ proc[p].pc = "v_fetch"
    /\ Runnable(p)
    /\ LET full_sig == DbGet(store, Head(proc[p].signatures))
           rest == Tail(proc[p].signatures)
       IN proc' = [proc EXCEPT ![p] =
                      [Consider(@, full_sig) EXCEPT
                          !.signatures = rest,
                          !.pc = IF rest = <<>> THEN "v_record" ELSE "v_fetch"]]
    /\ UNCHANGED <<demo_mode, librosa, store, nextId, verifications, last, nreq, pureVars, connVars, fileVars>>

\* is_match, await db.create_verification(...), return {...}
VerifyRecord(p) ==
    /\ proc[p].pc = "v_record"
    /\ Runnable(p)
    /\ LET pr == proc[p]
           matched == pr.matched_signature
           is_match == IsMatch(pr.best_confidence, matched)
           anti_spoofing == AntiSpoofing(pr.quality)
       IN /\ verifications' =
                 DbCreateVerification(verifications,
                                      IF matched # None THEN matched.id ELSE NoId,
                                      is_match, pr.best_confidence, anti_spoofing)
          /\ last' = Responded(pr,
                               [status |-> 200,
                                match |-> is_match,
                                confidence |-> pr.best_confidence,
                                matched_signature_id |->
                                    IF matched # None THEN matched.id ELSE NoId,
                                matched_signature_name |->
                                    IF matched # None THEN matched.name ELSE "",
                                anti_spoofing |-> anti_spoofing])
          /\ proc' = [proc EXCEPT ![p] = IdleProc]
    /\ UNCHANGED <<demo_mode, librosa, store, nextId, nreq, pureVars, connVars, fileVars>>

---------------------------------------------------------------------------
\* POST /enroll

\* Signatures still to be created by the enrollments in flight.
PendingEnrolls == Cardinality({ q \in Procs : proc[q].kind = "enroll" /\ InFlight(proc[q]) })

\* Mutant of TooFewSamples: two samples are let through.
TooFewSamplesOffByOne(n) == n < MinSamples - 1

\* if len(files) < 3
TooFewSamples(n) == n < MinSamples

\* The handler's entry: the check of len(files), and HTTP 400 at once.
EnrollStart(p) ==
    /\ Accepting(p)
    /\ nextId + PendingEnrolls < MaxSigs
    /\ \E files \in EnrollUploads, name \in Names, sing \in SingFlags :
           LET pr == [IdleProc EXCEPT !.pc = "e_read", !.kind = "enroll",
                                      !.files = files, !.name = name,
                                      !.include_singing = sing]
           IN IF TooFewSamples(Len(files))
              THEN /\ last' = Responded(pr, [status |-> 400])
                   /\ proc' = proc
              ELSE /\ proc' = [proc EXCEPT ![p] = pr]
                   /\ last' = last
    /\ nreq' = nreq + 1
    /\ UNCHANGED <<demo_mode, librosa, store, nextId, verifications, pureVars, connVars, fileVars>>

\* One turn of `for file in files`: read, extract, append.
EnrollFile(p) ==
    /\ proc[p].pc = "e_read"
    /\ Runnable(p)
    /\ LET file == proc[p].files[Len(proc[p].embeddings) + 1]
       IN \E r \in extract_embedding(file, librosa) :
           LET embeddings == Append(proc[p].embeddings, r.embedding)
           IN proc' = [proc EXCEPT ![p] =
                          [@ EXCEPT !.embeddings = embeddings,
                                    !.quality_scores = Append(@, r.quality),
                                    !.pc = IF Len(embeddings) = Len(proc[p].files)
                                           THEN "e_save" ELSE "e_read"]]
    /\ UNCHANGED <<demo_mode, librosa, store, nextId, verifications, last, nreq, pureVars, connVars, fileVars>>

\* centroid, avg_quality, await db.create_voice_signature(...), return {...}
EnrollSave(p) ==
    /\ proc[p].pc = "e_save"
    /\ Runnable(p)
    /\ LET pr == proc[p]
           centroid == aggregate_embeddings(pr.embeddings, "mean").val
           avg_quality == Frac(SumSeq(pr.quality_scores), Len(pr.quality_scores))
           id == nextId + 1
           st == DbCreate(store, id, pr.name, centroid, Len(pr.files), avg_quality,
                          pr.include_singing)
       IN /\ store' = st
          /\ nextId' = id
          /\ proc' = Moved(p, IdleProc, st)
          /\ last' = Responded(pr, [status |-> 200,
                                    signature_id |-> id,
                                    samples_count |-> Len(pr.files),
                                    quality_score |-> avg_quality])
    /\ UNCHANGED <<demo_mode, librosa, verifications, nreq, pureVars, connVars, fileVars>>

---------------------------------------------------------------------------
\* DELETE /signatures/{signature_id}

DeleteStart(p) ==
    /\ Accepting(p)
    /\ \E id \in SigIds :
           proc' = [proc EXCEPT ![p] =
                       [IdleProc EXCEPT !.pc = "d_get", !.kind = "delete", !.sid = id]]
    /\ nreq' = nreq + 1
    /\ UNCHANGED <<demo_mode, librosa, store, nextId, verifications, last, pureVars, connVars, fileVars>>

\* signature = await db.get_voice_signature(signature_id); 404 if not found
DeleteGet(p) ==
    /\ proc[p].pc = "d_get"
    /\ Runnable(p)
    /\ IF DbGet(store, proc[p].sid) = None
       THEN /\ last' = Responded(proc[p], [status |-> 404])
            /\ proc' = [proc EXCEPT ![p] = IdleProc]
       ELSE /\ proc' = [proc EXCEPT ![p] = [@ EXCEPT !.pc = "d_del"]]
            /\ last' = last
    /\ UNCHANGED <<demo_mode, librosa, store, nextId, verifications, nreq, pureVars, connVars, fileVars>>

\* await db.delete_voice_signature(signature_id)
DeleteDo(p) ==
    /\ proc[p].pc = "d_del"
    /\ Runnable(p)
    /\ LET st == DbDelete(store, proc[p].sid)
       IN /\ store' = st
          /\ proc' = Moved(p, IdleProc, st)
          /\ last' = Responded(proc[p], [status |-> 200, deleted |-> proc[p].sid])
    /\ UNCHANGED <<demo_mode, librosa, nextId, verifications, nreq, pureVars, connVars, fileVars>>

---------------------------------------------------------------------------
\* DELETE /data/signatures

DeleteAllStart(p) ==
    /\ Accepting(p)
    /\ proc' = [proc EXCEPT ![p] = [IdleProc EXCEPT !.pc = "a_del", !.kind = "delete_all"]]
    /\ nreq' = nreq + 1
    /\ UNCHANGED <<demo_mode, librosa, store, nextId, verifications, last, pureVars, connVars, fileVars>>

\* count = await db.delete_all_signatures()
DeleteAllDo(p) ==
    /\ proc[p].pc = "a_del"
    /\ Runnable(p)
    /\ LET st == DbDeleteAll(store)
       IN /\ store' = st
          /\ proc' = Moved(p, IdleProc, st)
          /\ last' = Responded(proc[p], [status |-> 200, deleted_count |-> Len(store)])
    /\ UNCHANGED <<demo_mode, librosa, nextId, verifications, nreq, pureVars, connVars, fileVars>>

Init ==
    /\ demo_mode \in BOOLEAN
    /\ librosa \in BOOLEAN
    /\ store = <<>>
    /\ nextId = 0
    /\ verifications = <<>>
    /\ proc = [p \in Procs |-> IdleProc]
    /\ last = None
    /\ nreq = 0
    /\ ConnIdle
    /\ FilesIdle
    /\ PureIdle

Next ==
    \E p \in Procs :
        \/ VerifyStart(p)
        \/ VerifyExtract(p)
        \/ VerifyGet(p)
        \/ VerifyList(p)
        \/ VerifyFetch(p)
        \/ VerifyRecord(p)
        \/ EnrollStart(p)
        \/ EnrollFile(p)
        \/ EnrollSave(p)
        \/ DeleteStart(p)
        \/ DeleteGet(p)
        \/ DeleteDo(p)
        \/ DeleteAllStart(p)
        \/ DeleteAllDo(p)

Spec == Init /\ [][Next]_vars

(***************************************************************************)
(* Properties of the verify and enroll handlers.                           *)
(***************************************************************************)
VerifyResponded == last # None /\ last.kind = "verify"

\* The call saw one store from its first statement to its response.
Unmodified(h) == Cardinality(h) = 1

TheStore(h) == CHOOSE s \in h : TRUE

\* The rows a verify call is to compare its probe with.
Candidates(st, sid) ==
    { i \in 1..Len(st) :
        /\ st[i].embedding # None
        /\ IF sid = NoId THEN st[i].status = "active" ELSE st[i].id = sid }

Similarity(st, i, probe) == compute_similarity(probe, st[i].embedding, "cosine").val

BelowThreshold(x) == NumGT(Rat(MatchThreshold), x)

NoneMatched(resp) ==
    /\ resp.matched_signature_id = NoId
    /\ resp.matched_signature_name = ""

\* C1: a verify response whose confidence is below 70 has match = false and
\* names no matched signature.
C1_BelowThresholdNamesNoSignature ==
    VerifyResponded /\ BelowThreshold(last.resp.confidence)
        => ~last.resp.match /\ NoneMatched(last.resp)

\* C2: in a 1:N verification over a store that did not change during the
\* call, the signature selected has the greatest similarity among the active
\* signatures with an embedding, the confidence is that similarity, and match
\* is true exactly when some such signature has similarity >= 70.
C2_SelectsMaximalAndThreshold ==
    VerifyResponded /\ last.sid = NoId /\ Unmodified(last.hist) =>
        LET st == TheStore(last.hist)
            cands == Candidates(st, NoId)
            sim(i) == Similarity(st, i, last.test_embedding)
            resp == last.resp
        IN /\ resp.matched_signature_id # NoId =>
                  \E i \in cands :
                      /\ st[i].id = resp.matched_signature_id
                      /\ resp.confidence = sim(i)
                      /\ \A j \in cands : NumGE(sim(i), sim(j))
           /\ resp.matched_signature_id = NoId =>
                  \A j \in cands : ~NumGT(sim(j), Rat(0))
           /\ resp.match <=> \E i \in cands : NumGE(sim(i), Rat(MatchThreshold))

\* A 1:N response with confidence exactly 70 that is a match.
C2_Witness ==
    /\ VerifyResponded /\ last.sid = NoId /\ Unmodified(last.hist)
    /\ last.resp.confidence = Rat(MatchThreshold)
    /\ last.resp.match

\* No store of h gives the call a candidate.
NoCandidates(h, sid) == \A st \in h : Candidates(st, sid) = {}

\* C5: a verify call whose candidate set is empty (1:N without an active
\* signature, 1:1 with an id of no signature) answers 200 with match =
\* false, confidence 0 and no matched signature.
C5_EmptyCandidateSetIsNoMatch ==
    VerifyResponded /\ NoCandidates(last.hist, last.sid) =>
        /\ last.resp.status = 200
        /\ ~last.resp.match
        /\ last.resp.confidence = Rat(0)
        /\ NoneMatched(last.resp)

\* A 1:1 call with an id of no signature, over a store that has signatures.
C5_Witness ==
    /\ VerifyResponded /\ last.sid # NoId
    /\ NoCandidates(last.hist, last.sid)
    /\ \A st \in last.hist : st # <<>>
    /\ last.resp.status = 200

\* An enroll request with n files arrives: it is either taken up by a
\* worker or answered at once.
EnrollArrives(n) ==
    /\ nreq' = nreq + 1
    /\ \/ \E p \in Procs : /\ proc[p].pc = "idle"
                           /\ proc'[p].kind = "enroll"
                           /\ Len(proc'[p].files) = n
       \/ /\ proc' = proc
          /\ last'.kind = "enroll"
          /\ Len(last'.files) = n

\* C6: an enroll request with fewer than 3 files is answered 400 in the step
\* it arrives in: no worker takes it up, so no embedding is extracted, and
\* the store is left as it was.
C6_TooFewSamplesRejected ==
    [][\A n \in 0..(MinSamples - 1) :
          EnrollArrives(n) =>
              /\ proc' = proc
              /\ last'.resp.status = 400
              /\ store' = store
              /\ nextId' = nextId]_vars

\* A rejected enrollment of two files, with a signature in the store.
C6_Witness ==
    /\ last # None /\ last.kind = "enroll"
    /\ Len(last.files) = MinSamples - 1
    /\ last.resp.status = 400
    /\ store # <<>>

\* The result of a verify call run alone on store st: the first candidate,
\* in the order the call meets them, among those of greatest similarity, if
\* that similarity is above 0.
Expected(st, probe, sid) ==
    LET ids == IF sid = NoId THEN DbList(st, "active", demo_mode)
               ELSE IF sid \in RowIds(st) THEN <<sid>> ELSE <<>>
        sim(k) == compute_similarity(probe, RowOf(st, ids[k]).embedding, "cosine").val
        winners == { k \in 1..Len(ids) :
                       /\ NumGT(sim(k), Rat(0))
                       /\ \A j \in 1..Len(ids) : NumGE(sim(k), sim(j)) }
    IN IF winners = {}
       THEN [match |-> FALSE, confidence |-> Rat(0), id |-> NoId, name |-> ""]
       ELSE LET k == CHOOSE w \in winners : \A x \in winners : w <= x
            IN [match |-> NumGE(sim(k), Rat(MatchThreshold)),
                confidence |-> sim(k),
                id |-> ids[k],
                name |-> RowOf(st, ids[k]).name]

ResultOf(resp) ==
    [match |-> resp.match, confidence |-> resp.confidence,
     id |-> resp.matched_signature_id, name |-> resp.matched_signature_name]

\* The call of worker p has finished its comparisons.
Compared(p) == proc[p].kind = "verify" /\ proc[p].pc = "v_record"

\* C7: verify calls over a store that nothing modified during them give the
\* result of the same call run alone, whatever other calls they are
\* interleaved with: so does the last response, and so do the calls that
\* have finished their comparisons.
C7_UnmodifiedStoreSameResult ==
    /\ VerifyResponded /\ Unmodified(last.hist) =>
           ResultOf(last.resp) =
               Expected(TheStore(last.hist), last.test_embedding, last.sid)
    /\ \A p \in Procs :
           Compared(p) /\ Unmodified(proc[p].hist) =>
               LET e == Expected(TheStore(proc[p].hist), proc[p].test_embedding,
                                 proc[p].sid)
               IN /\ proc[p].best_confidence = e.confidence
                  /\ e.id = IF proc[p].matched_signature = None THEN NoId
                            ELSE proc[p].matched_signature.id

\* Two 1:N calls with the same probe that were interleaved, both through
\* their comparisons over two signatures, with a signature matched.
C7_Witness ==
    /\ Len(store) = 2
    /\ \A p \in Procs :
           /\ Compared(p) /\ Unmodified(proc[p].hist)
           /\ proc[p].sid = NoId
           /\ proc[p].test_embedding = proc[1].test_embedding
           /\ proc[p].matched_signature # None

\* C8: a 1:N verify response is the result of verification against one of
\* the stores that existed during the call.
C8_ResultOfOneSnapshot ==
    VerifyResponded /\ last.sid = NoId =>
        \E st \in last.hist :
            ResultOf(last.resp) = Expected(st, last.test_embedding, NoId)


\* C22: in every verification result, in the response and in the record
\* kept of it, liveness_verified is true exactly when the probe's quality
\* is strictly above 50, and replay_detected and ai_generated are false.
C22_LivenessIffQualityAboveFifty ==
    VerifyResponded =>
        \A a \in {last.resp.anti_spoofing, verifications[1].anti_spoofing} :
            /\ a.liveness_verified <=> (last.quality > 50 * QUnit)
            /\ ~a.replay_detected
            /\ ~a.ai_generated

\* A probe of quality exactly 50 is not verified live.
C22_Witness ==
    /\ VerifyResponded
    /\ last.quality = 50 * QUnit
    /\ ~last.resp.anti_spoofing.liveness_verified

\* The signature was soft-deleted before the call's first statement and
\* stayed so to its response.
DeletedThroughout(h, id) ==
    \A st \in h : id \in RowIds(st) /\ RowOf(st, id).status = "deleted"

\* C25: once delete_signature(id) has succeeded, no later verify call, 1:1
\* with that id or 1:N, returns that signature as the matched signature or
\* reports a match against it.
C25_DeletedNeverMatched ==
    VerifyResponded =>
        \A id \in SigIds :
            DeletedThroughout(last.hist, id) => last.resp.matched_signature_id # id

(***************************************************************************)
(* SpecSimilarity: compute_similarity on pairs of vectors.                 *)
(***************************************************************************)
\* Raw vectors (before any normalization), padded to Dim.
RawTuples ==
    { PadTrunc(f) : f \in { <<0>>, <<1>>, <<-1>>, <<3>>, <<2, 1, 2, 4>>,
                            <<-2, -1, -2, -4>>, <<0, 3, 4>>, <<1, 1>>,
                            <<1, 2, 0, -1>> } }

SimVectors == { Vec(n) : n \in RawTuples } \cup { L2Normalize(Vec(n)) : n \in RawTuples }

Metrics == {"cosine", "euclidean", "plda"}

SimInit ==
    /\ inp \in [e1 : SimVectors, e2 : SimVectors]
    /\ out = None
    /\ SysIdle

SimCosine ==
    /\ out = None
    /\ out' = [metric |-> "cosine", res |-> compute_similarity(inp.e1, inp.e2, "cosine")]
    /\ UNCHANGED <<inp, sysVars>>

SimEuclidean ==
    /\ out = None
    /\ IsRational(inp.e1) /\ IsRational(inp.e2)
    /\ out' = [metric |-> "euclidean",
               res |-> compute_similarity(inp.e1, inp.e2, "euclidean")]
    /\ UNCHANGED <<inp, sysVars>>

SimUnknown ==
    /\ out = None
    /\ out' = [metric |-> "plda", res |-> compute_similarity(inp.e1, inp.e2, "plda")]
    /\ UNCHANGED <<inp, sysVars>>

SimNext == SimCosine \/ SimEuclidean \/ SimUnknown

SpecSimilarity == SimInit /\ [][SimNext]_vars
CosineCalled == out # None /\ out.metric = "cosine"

ZeroNormInput == IsZero(inp.e1) \/ IsZero(inp.e2)

\* C3 as stated: with the cosine metric, compute_similarity returns 0
\* whenever one of its two vectors has zero norm.
C3_ZeroNormYieldsZero ==
    (CosineCalled /\ ZeroNormInput) => out.res.val = Rat(0)

\* C3 amended: with the cosine metric and a zero-norm vector the cosine term
\* is taken as 0, so compute_similarity returns 50, the middle of its scale.
C3_ZeroNormYieldsFifty ==
    (CosineCalled /\ ZeroNormInput) => (out.res.ok /\ out.res.val = Rat(50))

C3_Witness ==
    /\ CosineCalled
    /\ IsZero(inp.e1)
    /\ ~IsZero(inp.e2)

\* v = 50 * (cos + 1) for the cosine of a and b, stated without a division:
\* v - 50 has the sign of a.b and (v - 50)^2 * |a|^2 * |b|^2 = 2500 * (a.b)^2.
IsRescaledCosine(v, a, b) ==
    LET x == NumSub(v, Rat(50))
        d == Dot(a.n, b.n)
        m == Dot(a.n, a.n) * Dot(b.n, b.n)
    IN IF x.s = 0
       THEN Sgn(x.c) = Sgn(d) /\ x.c * x.c * m = 2500 * d * d
       ELSE x.c = 0 /\ x.s = Sgn(d) /\ x.p * m = 2500 * d * d * x.r

SameDirection(a, b) == ~IsZero(a) /\ L2Normalize(a) = L2Normalize(b)

OppositeDirection(a, b) ==
    /\ ~IsZero(a)
    /\ L2Normalize(a) = L2Normalize([n |-> [i \in 1..Dim |-> -b.n[i]], q |-> b.q])

\* C4: compute_similarity(e, e) = 100 for every nonzero e; for nonzero
\* vectors the cosine result is (cos + 1) * 50; it lies in [0,100], is 100
\* for vectors of the same direction and 0 for vectors of opposite direction.
C4_CosineScale ==
    CosineCalled =>
        LET v == out.res.val
        IN /\ out.res.ok
           /\ (inp.e1 = inp.e2 /\ ~IsZero(inp.e1)) => v = Rat(100)
           /\ ~ZeroNormInput => IsRescaledCosine(v, inp.e1, inp.e2)
           /\ NumGE(v, Rat(0)) /\ NumGE(Rat(100), v)
           /\ SameDirection(inp.e1, inp.e2) => v = Rat(100)
           /\ OppositeDirection(inp.e1, inp.e2) => v = Rat(0)

C4_Witness ==
    /\ CosineCalled
    /\ inp.e1 = inp.e2
    /\ ~IsZero(inp.e1)
    /\ ~IsUnit(inp.e1)
    /\ out.res.val = Rat(100)
(***************************************************************************)
(* SpecEmbedding: extract_embedding on a clip, aggregate_embeddings on a   *)
(* list of unit-norm embeddings.                                           *)
(***************************************************************************)
Clips ==
    { Clip(<<3>>, 3000, 0, 1000),
      Clip(<<2, 1, 2, 4>>, 500, 0, 0),
      Clip(<<-3>>, 2000, 0, 0),
      Clip(<<0, 3, 4>>, 6000, 500, 5000),
      Clip(<<6, 0, 8>>, 900, 0, 300),
      Clip(<<3>>, 1000, 0, 0),
      Clip(<<3>>, 4000, 0, 20),
      Clip(<<-3>>, 4000, 0, 0),
      Clip(<<-3>>, 4001, 0, 0),
      Clip(<<3>>, 2000, 1, 0) }

\* Unit-norm embeddings: what extract_embedding gives with librosa.
UnitEmbeddings == { MockEmbedding(a) : a \in Clips } \cup { L2Normalize(Vec(PadTrunc(<<1>>))) }

RECURSIVE ListsUpTo(_, _)
ListsUpTo(S, k) ==
    IF k = 0 THEN { <<>> }
    ELSE LET shorter == ListsUpTo(S, k - 1)
         IN shorter \cup { Append(l, x) : l \in { m \in shorter : Len(m) = k - 1 }, x \in S }

AggMethods == {"mean", "median", "weighted"}

EmbInit ==
    /\ \/ inp \in [fn : {"aggregate"},
                   embeddings : ListsUpTo(UnitEmbeddings, MaxSamples),
                   method : AggMethods]
       \/ inp \in [fn : {"extract"}, audio : Clips, librosa : BOOLEAN]
    /\ out = None
    /\ SysIdle

EmbAggregate ==
    /\ out = None
    /\ inp.fn = "aggregate"
    /\ out' = [fn |-> "aggregate", res |-> aggregate_embeddings(inp.embeddings, inp.method)]
    /\ UNCHANGED <<inp, sysVars>>

EmbExtract ==
    /\ out = None
    /\ inp.fn = "extract"
    /\ \E r \in extract_embedding(inp.audio, inp.librosa) :
           out' = [fn |-> "extract", res |-> r]
    /\ UNCHANGED <<inp, sysVars>>

EmbNext == EmbAggregate \/ EmbExtract

SpecEmbedding == EmbInit /\ [][EmbNext]_vars

\* C10: every embedding extract_embedding returns and every centroid
\* aggregate_embeddings returns for a non-empty list of unit-norm embeddings
\* has unit L2 norm.
C10_UnitNorm ==
    /\ (out # None /\ out.fn = "extract") => IsUnit(out.res.embedding)
    /\ (out # None /\ out.fn = "aggregate" /\ inp.embeddings # <<>>) =>
           (out.res.ok /\ IsUnit(out.res.val))

\* The clip lasts between 1 and 4 seconds and none of its samples has
\* |x| > 0.99.
GoodLengthUnclipped(audio) == audio.dur >= 1000 /\ audio.dur <= 4000 /\ audio.clip = 0

\* C28: calculate_embedding_quality gives at least 70 to every clip of 1 to
\* 4 seconds without a sample of |x| > 0.99, whatever its loudness, so that
\* a silent probe of that length has liveness_verified = true in verify.
C28_QuietClipStillLive ==
    (out # None /\ out.fn = "extract" /\ inp.librosa /\ GoodLengthUnclipped(inp.audio)) =>
        /\ out.res.quality >= 70 * QUnit
        /\ AntiSpoofing(out.res.quality).liveness_verified

\* A silent clip of exactly 1 s: quality exactly 70.
C28_Witness ==
    /\ out # None /\ out.fn = "extract" /\ inp.librosa
    /\ inp.audio.dur = 1000 /\ inp.audio.clip = 0 /\ inp.audio.rms = 0
    /\ out.res.quality = 70 * QUnit
    /\ AntiSpoofing(out.res.quality).liveness_verified

(***************************************************************************)
(* Properties of aggregate_embeddings, under SpecEmbedding.                *)
(***************************************************************************)
Aggregated == out # None /\ out.fn = "aggregate" /\ inp.embeddings # <<>>

NamedMethod == inp.method \in {"mean", "median"}

\* The list is N >= 1 copies of one unit-norm embedding.
CopiesOfOne(es) ==
    /\ es # <<>>
    /\ IsUnit(es[1])
    /\ \A i \in 1..Len(es) : es[i] = es[1]

\* C11: aggregate_embeddings over N >= 1 copies of a unit-norm embedding e,
\* by mean or by median, returns e.
C11_CopiesGiveTheEmbedding ==
    Aggregated /\ NamedMethod /\ CopiesOfOne(inp.embeddings) =>
        out.res.ok /\ VecEq(out.res.val, inp.embeddings[1])

\* MaxSamples copies of an embedding that is on no axis, aggregated.
C11_Witness ==
    /\ Aggregated /\ NamedMethod /\ CopiesOfOne(inp.embeddings)
    /\ Len(inp.embeddings) = MaxSamples
    /\ Cardinality({ k \in 1..Dim : inp.embeddings[1].n[k] # 0 }) > 1
    /\ out.res.ok

\* The lists with the entries of es in another order.
Reordered(es) ==
    { [i \in 1..Len(es) |-> es[f[i]]] : f \in Permutations(1..Len(es)) }

\* C12: aggregate_embeddings returns, for the list in any order and when it
\* is called again on the same list, the centroid it returned, with the mean
\* and with the median.
C12_OrderIndependent ==
    Aggregated /\ NamedMethod =>
        \A es \in Reordered(inp.embeddings) :
            aggregate_embeddings(es, inp.method) = out.res

\* The median of three embeddings that are not all the same.
C12_Witness ==
    /\ Aggregated /\ inp.method = "median"
    /\ Len(inp.embeddings) = 3
    /\ Cardinality(Reordered(inp.embeddings)) > 1
    /\ out.res.ok

(***************************************************************************)
(* services/scoring.py.  Scores and features are exact rationals           *)
(* [num, den] in lowest terms with den > 0; the coefficients 0.6, 0.25 ... *)
(* are the decimal fractions the source writes.                            *)
(***************************************************************************)
Q(a, b) ==
    LET g == Gcd(Abs(a), Abs(b))
        s == IF b < 0 THEN -1 ELSE 1
    IN [num |-> (s * a) \div g, den |-> (s * b) \div g]

QInt(n) == [num |-> n, den |-> 1]

QAdd(x, y) == Q(x.num * y.den + y.num * x.den, x.den * y.den)

QSub(x, y) == Q(x.num * y.den - y.num * x.den, x.den * y.den)

QMul(x, y) == Q(x.num * y.num, x.den * y.den)

QDiv(x, y) == Q(x.num * y.den, x.den * y.num)

QLE(x, y) == x.num * y.den <= y.num * x.den

QLT(x, y) == x.num * y.den < y.num * x.den

QAbs(x) == [num |-> Abs(x.num), den |-> x.den]

\* np.clip(x, lo, hi)
QClip(x, lo, hi) == IF QLT(x, lo) THEN lo ELSE IF QLT(hi, x) THEN hi ELSE x

InScore(x) == QLE(QInt(0), x) /\ QLE(x, QInt(100))

\* Mutant of normalize_to_100: the result is not clipped.
normalize_unclipped(value, min_val, max_val) ==
    IF max_val = min_val THEN QInt(50)
    ELSE QMul(QDiv(QSub(value, min_val), QSub(max_val, min_val)), QInt(100))

normalize_to_100(value, min_val, max_val) ==
    IF max_val = min_val THEN QInt(50)
    ELSE LET normalized ==
                 QMul(QDiv(QSub(value, min_val), QSub(max_val, min_val)), QInt(100))
         IN QClip(normalized, QInt(0), QInt(100))

\* Python's `x or d`: d when x is None or 0.
OrDefault(x, d) == IF x = None \/ x = QInt(0) THEN d ELSE x

\* dict.get(key, default)
GetOr(x, d) == IF x = None THEN d ELSE x

\* A pydantic model with Field(ge=0, le=100) on every field.
Validated(rec) ==
    IF \A f \in DOMAIN rec : InScore(rec[f])
    THEN [ok |-> TRUE, val |-> rec]
    ELSE [ok |-> FALSE, val |-> "ValidationError"]

\* Mutant of Warmth: the value is not clipped.
WarmthUnclipped(brightness) ==
    QAdd(QSub(QInt(100), QMul(brightness, Q(6, 10))), QInt(30))

\* warmth = 100 - brightness * 0.6 + 30; warmth = np.clip(warmth, 0, 100)
Warmth(brightness) ==
    QClip(QAdd(QSub(QInt(100), QMul(brightness, Q(6, 10))), QInt(30)), QInt(0), QInt(100))

calculate_timbre_scores(features) ==
    LET brightness == normalize_to_100(features.spectral_centroid, QInt(1000), QInt(4000))
        breathiness == QSub(QInt(100), normalize_to_100(features.hnr, QInt(5), QInt(30)))
        warmth == Warmth(brightness)
        jitter_contrib == QMul(OrDefault(features.jitter, Q(1, 2)), QInt(10))
        shimmer_contrib == QMul(OrDefault(features.shimmer, QInt(3)), QInt(3))
        roughness == QClip(QAdd(jitter_contrib, shimmer_contrib), QInt(0), QInt(100))
    IN Validated([brightness |-> brightness, breathiness |-> breathiness,
                  warmth |-> warmth, roughness |-> roughness])

calculate_weight_scores(features) ==
    LET cpp_score == normalize_to_100(features.cpp, QInt(5), QInt(20))
        h1_h2_score == QSub(QInt(100), normalize_to_100(features.h1_h2, QInt(-5), QInt(15)))
        weight == QAdd(QMul(cpp_score, Q(6, 10)), QMul(h1_h2_score, Q(4, 10)))
        pressed == QSub(QInt(100), normalize_to_100(features.h1_h2, QInt(-5), QInt(15)))
    IN Validated([weight |-> QClip(weight, QInt(0), QInt(100)),
                  pressed |-> QClip(pressed, QInt(0), QInt(100))])

\* Mutant of calculate_placement_scores: the centre of the singer's formant
\* is taken lower for speech.
calculate_placement_scores_by_type(features, audio_type) ==
    LET f1 == GetOr(features.formants.f1, QInt(500))
        f2 == GetOr(features.formants.f2, QInt(1500))
        f3 == GetOr(features.formants.f3, QInt(2500))
        f2_f1_ratio == IF QLT(QInt(0), f1) THEN QDiv(f2, f1) ELSE QInt(3)
        forwardness ==
            QAdd(QMul(normalize_to_100(f2_f1_ratio, QInt(2), QInt(4)), Q(1, 2)),
                 QMul(normalize_to_100(features.spectral_centroid, QInt(1500), QInt(3500)),
                      Q(1, 2)))
        centre == IF audio_type = "sung" THEN QInt(3000) ELSE QInt(2500)
        ring_distance == QAbs(QSub(f3, centre))
        ring_index == QSub(QInt(100), normalize_to_100(ring_distance, QInt(0), QInt(1500)))
        f1_f2_spacing == QSub(f2, f1)
        nasality == QSub(QInt(100), normalize_to_100(f1_f2_spacing, QInt(500), QInt(1500)))
    IN Validated([forwardness |-> QClip(forwardness, QInt(0), QInt(100)),
                  ring_index |-> QClip(ring_index, QInt(0), QInt(100)),
                  nasality |-> QClip(nasality, QInt(0), QInt(100))])

calculate_placement_scores(features, audio_type) ==
    LET f1 == GetOr(features.formants.f1, QInt(500))
        f2 == GetOr(features.formants.f2, QInt(1500))
        f3 == GetOr(features.formants.f3, QInt(2500))
        f2_f1_ratio == IF QLT(QInt(0), f1) THEN QDiv(f2, f1) ELSE QInt(3)
        forwardness ==
            QAdd(QMul(normalize_to_100(f2_f1_ratio, QInt(2), QInt(4)), Q(1, 2)),
                 QMul(normalize_to_100(features.spectral_centroid, QInt(1500), QInt(3500)),
                      Q(1, 2)))
        ring_distance == QAbs(QSub(f3, QInt(3000)))
        ring_index == QSub(QInt(100), normalize_to_100(ring_distance, QInt(0), QInt(1500)))
        f1_f2_spacing == QSub(f2, f1)
        nasality == QSub(QInt(100), normalize_to_100(f1_f2_spacing, QInt(500), QInt(1500)))
    IN Validated([forwardness |-> QClip(forwardness, QInt(0), QInt(100)),
                  ring_index |-> QClip(ring_index, QInt(0), QInt(100)),
                  nasality |-> QClip(nasality, QInt(0), QInt(100))])

\* Mutant of Harshness: the excess of brightness is counted in full.
HarshnessFullExcess(timbre) ==
    QClip(QAdd(IF QLT(QInt(80), timbre.brightness)
               THEN QSub(timbre.brightness, QInt(80))
               ELSE QInt(0),
               QMul(timbre.roughness, Q(3, 10))),
          QInt(0), QInt(100))

\* harshness = 0; if timbre.brightness > 80: harshness += (brightness - 80) * 0.5;
\* harshness += timbre.roughness * 0.3; harshness = np.clip(harshness, 0, 100)
Harshness(timbre) ==
    QClip(QAdd(IF QLT(QInt(80), timbre.brightness)
               THEN QMul(QSub(timbre.brightness, QInt(80)), Q(1, 2))
               ELSE QInt(0),
               QMul(timbre.roughness, Q(3, 10))),
          QInt(0), QInt(100))

calculate_sweet_spot(timbre, weight, placement, features) ==
    LET clarity ==
            QClip(QAdd(QMul(normalize_to_100(features.hnr, QInt(10), QInt(25)), Q(7, 10)),
                       QMul(QSub(QInt(100), timbre.breathiness), Q(3, 10))),
                  QInt(0), QInt(100))
        warmth == timbre.warmth
        presence == QAdd(QMul(placement.forwardness, Q(6, 10)),
                         QMul(placement.ring_index, Q(4, 10)))
        smoothness == QSub(QInt(100), timbre.roughness)
        harshness == Harshness(timbre)
        total == QAdd(QAdd(QAdd(QAdd(QMul(Q(25, 100), clarity),
                                     QMul(Q(20, 100), warmth)),
                                QMul(Q(20, 100), presence)),
                           QMul(Q(15, 100), smoothness)),
                      QMul(Q(20, 100), QSub(QInt(100), harshness)))
    IN Validated([clarity |-> clarity, warmth |-> warmth, presence |-> presence,
                  smoothness |-> smoothness, harshness_penalty |-> harshness,
                  total |-> QClip(total, QInt(0), QInt(100))])

\* Mutant of calculate_scores: the result of the call before is kept and
\* returned again while the audio type stays the same.
calculate_scores_cached(features, audio_type) ==
    IF out # None /\ inp.audio_type = audio_type
    THEN out.res
    ELSE LET timbre == calculate_timbre_scores(features)
             weight == calculate_weight_scores(features)
             placement == calculate_placement_scores(features, audio_type)
         IN [ok |-> TRUE,
             val |-> [timbre |-> timbre.val, weight |-> weight.val,
                      placement |-> placement.val,
                      sweet_spot |-> calculate_sweet_spot(timbre.val, weight.val,
                                                          placement.val, features).val]]

\* A constructor that raises ends the call: what follows it is not run.
calculate_scores(features, audio_type) ==
    LET timbre == calculate_timbre_scores(features)
        weight == calculate_weight_scores(features)
        placement == calculate_placement_scores(features, audio_type)
    IN IF ~timbre.ok THEN timbre
       ELSE IF ~weight.ok THEN weight
       ELSE IF ~placement.ok THEN placement
       ELSE LET sweet_spot ==
                    calculate_sweet_spot(timbre.val, weight.val, placement.val, features)
            IN IF ~sweet_spot.ok THEN sweet_spot
               ELSE [ok |-> TRUE,
                     val |-> [timbre |-> timbre.val, weight |-> weight.val,
                              placement |-> placement.val, sweet_spot |-> sweet_spot.val]]

(***************************************************************************)
(* SpecScoring: one call of normalize_to_100 or of calculate_scores on an  *)
(* input drawn from the sets below.                                        *)
(***************************************************************************)
NormValues == { Q(n, 2) : n \in -4..12 }

NormLimits == { QInt(-1), QInt(0), QInt(2), QInt(5) }

AudioTypes == {"spoken", "sung"}

\* A formant the dict may lack, a jitter or shimmer that may be None.
Missing(S) == {None} \cup S

FeatureVectors ==
    [spectral_centroid : { QInt(500), QInt(1000), QInt(2500), QInt(3700), QInt(5000) },
     hnr : { QInt(0), QInt(20), QInt(40) },
     cpp : { QInt(0), QInt(14), QInt(30) },
     h1_h2 : { QInt(-10), QInt(20) },
     formants : [f1 : Missing({ QInt(-100), QInt(0), QInt(500) }),
                 f2 : Missing({ QInt(2500) }),
                 f3 : Missing({ QInt(5000) })],
     jitter : Missing({ QInt(0), QInt(2), QInt(20) }),
     shimmer : Missing({ QInt(0), QInt(40) })]

ScoInit ==
    /\ \/ inp \in [fn : {"normalize"}, value : NormValues,
                   min_val : NormLimits, max_val : NormLimits]
       \/ inp \in [fn : {"scores"}, features : FeatureVectors, audio_type : AudioTypes]
    /\ out = None
    /\ SysIdle

ScoNormalize ==
    /\ out = None
    /\ inp.fn = "normalize"
    /\ out' = [fn |-> "normalize",
               res |-> normalize_to_100(inp.value, inp.min_val, inp.max_val)]
    /\ UNCHANGED <<inp, sysVars>>

ScoScores ==
    /\ out = None
    /\ inp.fn = "scores"
    /\ out' = [fn |-> "scores", res |-> calculate_scores(inp.features, inp.audio_type)]
    /\ UNCHANGED <<inp, sysVars>>

ScoNext == ScoNormalize \/ ScoScores

SpecScoring == ScoInit /\ [][ScoNext]_vars

Normalized == out # None /\ out.fn = "normalize" /\ QLT(inp.min_val, inp.max_val)

\* C13: with lo < hi, normalize_to_100(v, lo, hi) is within [0,100], is 0
\* for v <= lo and 100 for v >= hi, and is at most the value it gives for
\* any greater v.
C13_NormalizeMonotoneClamped ==
    Normalized =>
        /\ InScore(out.res)
        /\ QLE(inp.value, inp.min_val) => out.res = QInt(0)
        /\ QLE(inp.max_val, inp.value) => out.res = QInt(100)
        /\ \A w \in NormValues :
               QLE(inp.value, w) =>
                   QLE(out.res, normalize_to_100(w, inp.min_val, inp.max_val))

\* A value strictly between the limits, with a result strictly inside.
C13_Witness ==
    /\ Normalized
    /\ QLT(inp.min_val, inp.value) /\ QLT(inp.value, inp.max_val)
    /\ QLT(QInt(0), out.res) /\ QLT(out.res, QInt(100))

Scored == out # None /\ out.fn = "scores"

AllInScore(rec) == \A f \in DOMAIN rec : InScore(rec[f])

\* C14: calculate_scores returns a ScoreSet for every feature vector, and
\* every field of its timbre, weight, placement and sweet_spot is in [0,100].
C14_EveryScoreInRange ==
    Scored =>
        /\ out.res.ok
        /\ AllInScore(out.res.val.timbre)
        /\ AllInScore(out.res.val.weight)
        /\ AllInScore(out.res.val.placement)
        /\ AllInScore(out.res.val.sweet_spot)

\* A vector without jitter and shimmer, with F1 <= 0, a centroid above the
\* brightness range and an HNR below its range, scored.
C14_Witness ==
    /\ Scored /\ out.res.ok
    /\ inp.features.jitter = None /\ inp.features.shimmer = None
    /\ inp.features.formants.f1 # None /\ QLE(inp.features.formants.f1, QInt(0))
    /\ QLT(QInt(4000), inp.features.spectral_centroid)
    /\ QLT(inp.features.hnr, QInt(5))

\* C15: with numeric jitter and shimmer, 0 included, roughness is
\* clamp(10*jitter + 3*shimmer, 0, 100) and smoothness is 100 - roughness.
C15_RoughnessFormula ==
    Scored /\ inp.features.jitter # None /\ inp.features.shimmer # None =>
        /\ out.res.ok
        /\ out.res.val.timbre.roughness =
               QClip(QAdd(QMul(QInt(10), inp.features.jitter),
                          QMul(QInt(3), inp.features.shimmer)),
                     QInt(0), QInt(100))
        /\ out.res.val.sweet_spot.smoothness =
               QSub(QInt(100), out.res.val.timbre.roughness)

\* C27: in the scores calculate_scores returns, timbre warmth, which is
\* also the sweet spot's warmth, is in [70,100] and is 100 whenever
\* brightness <= 50; harshness_penalty is in [0,40]; and the sweet spot's
\* total is never below 26.
C27_WarmthAndHarshnessRanges ==
    (Scored /\ out.res.ok) =>
        LET timbre == out.res.val.timbre
            sweet_spot == out.res.val.sweet_spot
        IN /\ QLE(QInt(70), timbre.warmth) /\ QLE(timbre.warmth, QInt(100))
           /\ sweet_spot.warmth = timbre.warmth
           /\ QLE(timbre.brightness, QInt(50)) => timbre.warmth = QInt(100)
           /\ QLE(QInt(0), sweet_spot.harshness_penalty)
           /\ QLE(sweet_spot.harshness_penalty, QInt(40))
           /\ QLE(QInt(26), sweet_spot.total)

\* The brightest and roughest vector: warmth 70 and harshness 40.
C27_Witness ==
    /\ Scored /\ out.res.ok
    /\ out.res.val.timbre.brightness = QInt(100)
    /\ out.res.val.timbre.roughness = QInt(100)
    /\ out.res.val.timbre.warmth = QInt(70)
    /\ out.res.val.sweet_spot.harshness_penalty = QInt(40)

\* C30: the scores calculate_scores returns do not depend on the audio
\* type: for every feature vector the call with "spoken" and the call with
\* "sung" return the same.
C30_ScoresIgnoreAudioType ==
    Scored =>
        \A other \in AudioTypes : calculate_scores(inp.features, other) = out.res

\* A call with "sung" on a vector with every formant present, scored.
C30_Witness ==
    /\ Scored /\ out.res.ok
    /\ inp.audio_type = "sung"
    /\ \A f \in DOMAIN inp.features.formants : inp.features.formants[f] # None
    /\ calculate_scores(inp.features, "spoken") = out.res

(***************************************************************************)
(* SpecScoringCalls: calls of calculate_scores one after the other.  inp   *)
(* is the call made last, out.res what it returned; out.first, the first   *)
(* call of the run with what it returned, and out.between, whether a call  *)
(* with another input came before this one, are kept for the checks.       *)
(***************************************************************************)
CallFeatures ==
    { f \in FeatureVectors :
        /\ f.spectral_centroid \in { QInt(1000), QInt(3700) }
        /\ f.hnr = QInt(20) /\ f.cpp = QInt(14) /\ f.h1_h2 = QInt(20)
        /\ f.formants = [f1 |-> QInt(500), f2 |-> QInt(2500), f3 |-> None]
        /\ f.jitter \in { None, QInt(2) }
        /\ f.shimmer \in { None, QInt(0) } }

CallsInit ==
    /\ inp = None
    /\ out = None
    /\ SysIdle

ScoreCall ==
    /\ \E features \in CallFeatures, audio_type \in AudioTypes :
           LET call == [fn |-> "scores", features |-> features, audio_type |-> audio_type]
               res == calculate_scores(features, audio_type)
           IN /\ inp' = call
              /\ out' = [fn |-> "scores", res |-> res,
                         first |-> IF out = None THEN [call |-> call, res |-> res]
                                   ELSE out.first,
                         between |-> out # None /\ (out.between \/ inp # out.first.call)]
    /\ UNCHANGED sysVars

CallsNext == ScoreCall

SpecScoringCalls == CallsInit /\ [][CallsNext]_vars

Raises == [raise |-> TRUE]

NaN == [nan |-> TRUE]

NMfcc == 13

\* float(x) if not np.isnan(x) else d
UnlessNaN(x, d) == IF x = NaN THEN d ELSE x

extract_spectral_features(m, have_librosa) ==
    IF ~have_librosa
    THEN [centroid |-> QInt(2450), rolloff |-> QInt(4500)]
    ELSE IF m = Raises THEN Raises
    ELSE [centroid |-> m.centroid, rolloff |-> m.rolloff]

extract_harmonic_features(m, have_parselmouth) ==
    IF ~have_parselmouth
    THEN [hnr |-> Q(185, 10), cpp |-> Q(123, 10), h1_h2 |-> Q(42, 10)]
    ELSE IF m = Raises THEN Raises
    ELSE [hnr |-> UnlessNaN(m.hnr, QInt(15)), cpp |-> QInt(12), h1_h2 |-> QInt(4)]

extract_formants(m, have_parselmouth) ==
    IF ~have_parselmouth
    THEN [f1 |-> QInt(520), f2 |-> QInt(1680), f3 |-> QInt(2580), f4 |-> QInt(3450)]
    ELSE IF m = Raises THEN Raises
    ELSE [f1 |-> UnlessNaN(m.f1, QInt(500)), f2 |-> UnlessNaN(m.f2, QInt(1500)),
          f3 |-> UnlessNaN(m.f3, QInt(2500)), f4 |-> UnlessNaN(m.f4, QInt(3500))]

TimesHundred(x) == IF x = NaN THEN NaN ELSE QMul(x, QInt(100))

extract_pitch_features(m, audio_type, have_parselmouth) ==
    IF ~have_parselmouth
    THEN [f0_mean |-> QInt(185), f0_range |-> <<QInt(145), QInt(245)>>,
          jitter |-> Q(1, 2), shimmer |-> Q(32, 10)]
    ELSE IF m = Raises \/ m[audio_type] = Raises THEN Raises
    ELSE LET p == m[audio_type]
         IN [f0_mean |-> UnlessNaN(p.f0_mean, QInt(150)),
             f0_range |-> <<UnlessNaN(p.f0_min, QInt(100)), UnlessNaN(p.f0_max, QInt(300))>>,
             jitter |-> UnlessNaN(TimesHundred(p.jitter), Q(1, 2)),
             shimmer |-> UnlessNaN(TimesHundred(p.shimmer), QInt(3))]

extract_mfccs(m, have_librosa) ==
    IF ~have_librosa THEN [i \in 1..NMfcc |-> QInt(0)]
    ELSE IF m = Raises THEN Raises
    ELSE m

\* The AcousticFeatures of the `except Exception` branch.
MockFeatures ==
    [spectral_centroid |-> QInt(2450), spectral_rolloff |-> QInt(4500),
     hnr |-> Q(185, 10), cpp |-> Q(123, 10), h1_h2 |-> Q(42, 10),
     f0_mean |-> QInt(185), f0_range |-> <<QInt(145), QInt(245)>>,
     formants |-> [f1 |-> QInt(520), f2 |-> QInt(1680), f3 |-> QInt(2580),
                   f4 |-> QInt(3450)],
     mfccs |-> [i \in 1..NMfcc |-> QInt(0)],
     jitter |-> Q(1, 2), shimmer |-> Q(32, 10)]

\* The five extractions in the order of the try block: the first that
\* raises sends the call to the except branch.
extract_features(signal, audio_type, have_librosa, have_parselmouth) ==
    LET spectral == extract_spectral_features(signal.spectral, have_librosa)
        harmonic == extract_harmonic_features(signal.harmonic, have_parselmouth)
        formants == extract_formants(signal.formants, have_parselmouth)
        pitch == extract_pitch_features(signal.pitch, audio_type, have_parselmouth)
        mfccs == extract_mfccs(signal.mfccs, have_librosa)
    IN IF Raises \in {spectral, harmonic, formants, pitch, mfccs}
       THEN [ok |-> TRUE, val |-> MockFeatures]
       ELSE [ok |-> TRUE,
             val |-> [spectral_centroid |-> spectral.centroid,
                      spectral_rolloff |-> spectral.rolloff,
                      hnr |-> harmonic.hnr, cpp |-> harmonic.cpp, h1_h2 |-> harmonic.h1_h2,
                      f0_mean |-> pitch.f0_mean, f0_range |-> pitch.f0_range,
                      formants |-> formants, mfccs |-> mfccs,
                      jitter |-> pitch.jitter, shimmer |-> pitch.shimmer]]

(***************************************************************************)
(* SpecFeatures: one call of extract_features.                             *)
(***************************************************************************)
PitchMeasures ==
    { [f0_mean |-> QInt(210), f0_min |-> QInt(180), f0_max |-> QInt(260),
       jitter |-> Q(4, 1000), shimmer |-> Q(2, 100)],
      [f0_mean |-> NaN, f0_min |-> NaN, f0_max |-> NaN, jitter |-> NaN, shimmer |-> NaN] }

Signals ==
    [spectral : { Raises, [centroid |-> QInt(1800), rolloff |-> QInt(3900)] },
     harmonic : { Raises, [hnr |-> QInt(22)], [hnr |-> NaN] },
     formants : { Raises,
                  [f1 |-> QInt(600), f2 |-> QInt(1700), f3 |-> QInt(2900), f4 |-> QInt(3600)],
                  [f1 |-> QInt(600), f2 |-> NaN, f3 |-> NaN, f4 |-> NaN] },
     pitch : { Raises }
                 \cup [spoken : PitchMeasures,
                       sung : { [f0_mean |-> QInt(205), f0_min |-> QInt(90),
                                 f0_max |-> QInt(600), jitter |-> Q(5, 1000),
                                 shimmer |-> Q(3, 100)] }],
     mfccs : { Raises, [i \in 1..NMfcc |-> QInt(-i)] }]

FeaInit ==
    /\ inp \in [signal : Signals, audio_type : AudioTypes,
                librosa : BOOLEAN, parselmouth : BOOLEAN]
    /\ out = None
    /\ SysIdle

FeaExtract ==
    /\ out = None
    /\ out' = [fn |-> "features",
               res |-> extract_features(inp.signal, inp.audio_type, inp.librosa,
                                        inp.parselmouth)]
    /\ UNCHANGED <<inp, sysVars>>

FeaNext == FeaExtract

SpecFeatures == FeaInit /\ [][FeaNext]_vars

Extracted == out # None /\ out.fn = "features"

\* The fields of each family in a FeatureVector.
FamilyFields(fam, f) ==
    CASE fam = "spectral" -> <<f.spectral_centroid, f.spectral_rolloff>>
      [] fam = "harmonic" -> <<f.hnr, f.cpp, f.h1_h2>>
      [] fam = "formants" -> <<f.formants>>
      [] fam = "pitch" -> <<f.f0_mean, f.f0_range, f.jitter, f.shimmer>>
      [] fam = "mfccs" -> <<f.mfccs>>

Families == {"spectral", "harmonic", "formants", "pitch", "mfccs"}

\* The family can be computed from the signal: the library does not raise.
Computable(fam) == inp.signal[fam] # Raises

\* The FeatureVector of the call on a signal with this signal's family fam
\* and every other family computable.
AloneResult(fam) ==
    LET good == CHOOSE s \in Signals : \A g \in Families : s[g] # Raises
        sig == [g \in Families |-> IF g = fam THEN inp.signal[g] ELSE good[g]]
    IN extract_features(sig, inp.audio_type, inp.librosa, inp.parselmouth).val

\* C17: extract_features returns a FeatureVector, and every family that can
\* be computed from the signal has in it the values computed from the
\* signal, whatever happens to the other families.
C17_OnlyTheFailedFamilyDefaults ==
    Extracted =>
        /\ out.res.ok
        /\ \A fam \in Families :
               Computable(fam) =>
                   FamilyFields(fam, out.res.val) = FamilyFields(fam, AloneResult(fam))

\* The signal is no signal (every library call on it raises) or a library
\* is not installed.
StructuralError ==
    \/ \A fam \in Families : inp.signal[fam] = Raises
    \/ ~inp.librosa
    \/ ~inp.parselmouth

\* C19: extract_features on an invalid signal, or without a library it
\* needs, raises instead of returning a FeatureVector.
C19_StructuralErrorsPropagate ==
    Extracted /\ StructuralError => ~out.res.ok

\* Every family of the signal can be computed, with both libraries.
AllComputed(signal) == \A fam \in Families : signal[fam] # Raises

\* C24: when the harmonic family is computable, CPP and H1-H2 are computed
\* from the signal: for the values a signal obtains there is a signal, of
\* another harmonic structure, that obtains other values.
C24_CppAndH1H2FromSignal ==
    (Extracted /\ inp.librosa /\ inp.parselmouth /\ AllComputed(inp.signal)) =>
        \E s \in Signals :
            /\ AllComputed(s)
            /\ LET r == extract_features(s, inp.audio_type, TRUE, TRUE).val
               IN r.cpp # out.res.val.cpp \/ r.h1_h2 # out.res.val.h1_h2

(***************************************************************************)
(* services/preprocessing.py.  An audio buffer is its number of samples,   *)
(* the RMS librosa.feature.rms gives for each of its frames, in 1/1000,    *)
(* whether that call raises instead, and the file it was decoded from.     *)
(* Times are exact rationals in seconds.                                   *)
(***************************************************************************)
TargetSr == 16000

HopLength == 512

VadThreshold == 20

TargetRms == 71

FallbackLen == 16000

\* The number of frames of a buffer of n samples (center = True).
FramesOf(n) == 1 + n \div HopLength

\* Mutant of frames_to_time: the time of the frame after.
frames_to_time_next(frame, sr) == Q((frame + 1) * HopLength, sr)

\* librosa.frames_to_time(frame, sr=sr, hop_length=512)
frames_to_time(frame, sr) == Q(frame * HopLength, sr)

RECURSIVE SumSquares(_)
SumSquares(s) == IF s = <<>> THEN 0 ELSE Head(s) * Head(s) + SumSquares(Tail(s))

\* normalize_loudness: the buffer scaled to the target RMS and clipped to
\* [-1, 1]; left as it is when its RMS is 0 or, for no samples, NaN.
normalize_loudness(audio) ==
    IF audio.len = 0 THEN audio
    ELSE LET rms == ISqrt(SumSquares(audio.rms) \div Len(audio.rms))
         IN IF rms > 0
            THEN [audio EXCEPT
                     !.rms = [i \in 1..Len(audio.rms) |->
                                 Min2((audio.rms[i] * TargetRms) \div rms, 1000)]]
            ELSE audio

\* reduce_noise: returns the audio unchanged.
reduce_noise(audio, sr) == audio

\* isolate_vocals_if_needed: returns the audio unchanged.
isolate_vocals_if_needed(audio, sr) == audio

\* The loop over the frames from frame i (counted from 0) on, and the
\* final segment.
RECURSIVE ScanFrames(_, _, _, _, _, _, _)
ScanFrames(voiced, i, in_voiced, start_frame, segments, sr, duration) ==
    IF i = Len(voiced)
    THEN IF in_voiced
         THEN Append(segments, <<frames_to_time(start_frame, sr), duration>>)
         ELSE segments
    ELSE LET is_voiced == voiced[i + 1]
         IN IF is_voiced /\ ~in_voiced
            THEN ScanFrames(voiced, i + 1, TRUE, i, segments, sr, duration)
            ELSE IF ~is_voiced /\ in_voiced
            THEN ScanFrames(voiced, i + 1, FALSE, start_frame,
                            Append(segments, <<frames_to_time(start_frame, sr),
                                               frames_to_time(i, sr)>>),
                            sr, duration)
            ELSE ScanFrames(voiced, i + 1, in_voiced, start_frame, segments, sr, duration)

\* Mutant of OrWholeSignal: the list is returned as it is.
OrNothing(segments, duration) == segments

\* return segments if segments else [(0.0, len(audio) / sr)]
OrWholeSignal(segments, duration) ==
    IF segments # <<>> THEN segments ELSE << <<QInt(0), duration>> >>

detect_voiced_segments(audio, sr, have_librosa) ==
    LET duration == Q(audio.len, sr)
    IN IF ~have_librosa THEN [ok |-> TRUE, val |-> << <<QInt(0), duration>> >>]
       ELSE IF audio.rms_raises THEN [ok |-> FALSE, val |-> "Exception"]
       ELSE LET voiced == [i \in 1..Len(audio.rms) |-> audio.rms[i] > VadThreshold]
                segments == ScanFrames(voiced, 0, FALSE, 0, <<>>, sr, duration)
            IN [ok |-> TRUE, val |-> OrWholeSignal(segments, duration)]

\* A file is unreadable, or it decodes to a buffer.
Unreadable == [kind |-> "unreadable"]

preprocess_audio(file, audio_type, have_librosa) ==
    IF ~have_librosa
    THEN [ok |-> TRUE,
          val |-> [audio |-> [origin |-> "zeros", len |-> FallbackLen,
                              rms |-> [i \in 1..FramesOf(FallbackLen) |-> 0],
                              rms_raises |-> FALSE],
                   sample_rate |-> 16000,
                   duration |-> QInt(1),
                   voiced_segments |-> << <<QInt(0), QInt(1)>> >>,
                   audio_type |-> audio_type]]
    ELSE IF file = Unreadable THEN [ok |-> FALSE, val |-> "Exception"]
    ELSE LET sr == TargetSr
             loaded == [origin |-> file.id, len |-> file.len, rms |-> file.rms,
                        rms_raises |-> file.rms_raises]
             normalized == reduce_noise(normalize_loudness(loaded), sr)
             voiced_segments == detect_voiced_segments(normalized, sr, TRUE)
             audio == IF audio_type = "sung"
                      THEN isolate_vocals_if_needed(normalized, sr)
                      ELSE normalized
         IN IF ~voiced_segments.ok THEN voiced_segments
            ELSE [ok |-> TRUE,
                  val |-> [audio |-> audio,
                           sample_rate |-> sr,
                           duration |-> Q(audio.len, sr),
                           voiced_segments |-> voiced_segments.val,
                           audio_type |-> audio_type]]

(***************************************************************************)
(* SpecPreprocess: one call of detect_voiced_segments or preprocess_audio. *)
(***************************************************************************)
RmsLevels == {0, VadThreshold, 50}

\* Buffers of 1 to MaxFrames frames, ending inside the last hop or exactly
\* on a hop boundary, and the buffer of no samples: on it
\* librosa.feature.rms gives one frame of padding or raises, with the
\* version of librosa.
Audios ==
    UNION { [origin : {"f"},
             len : {(k - 1) * HopLength + 200} \cup
                   (IF k > 1 THEN {(k - 1) * HopLength} ELSE {}),
             rms : [1..k -> RmsLevels],
             rms_raises : {FALSE}] : k \in 1..MaxFrames }
        \cup [origin : {"f"}, len : {0}, rms : {<<0>>}, rms_raises : BOOLEAN]

AudioFiles == {Unreadable} \cup { [kind |-> "audio", id |-> a.origin, len |-> a.len,
                                   rms |-> a.rms, rms_raises |-> a.rms_raises] :
                                     a \in Audios }

PreInit ==
    /\ \/ inp \in [fn : {"vad"}, audio : Audios, librosa : BOOLEAN]
       \/ inp \in [fn : {"preprocess"}, file : AudioFiles, audio_type : AudioTypes,
                   librosa : BOOLEAN]
    /\ out = None
    /\ SysIdle

PreVad ==
    /\ out = None
    /\ inp.fn = "vad"
    /\ out' = [fn |-> "vad", res |-> detect_voiced_segments(inp.audio, TargetSr, inp.librosa)]
    /\ UNCHANGED <<inp, sysVars>>

PrePreprocess ==
    /\ out = None
    /\ inp.fn = "preprocess"
    /\ out' = [fn |-> "preprocess",
               res |-> preprocess_audio(inp.file, inp.audio_type, inp.librosa)]
    /\ UNCHANGED <<inp, sysVars>>

PreNext == PreVad \/ PrePreprocess

SpecPreprocess == PreInit /\ [][PreNext]_vars

Preprocessed == out # None /\ out.fn = "preprocess"

EmptyOrUnreadable(file) == file = Unreadable \/ file.len = 0

\* C18: preprocess_audio raises on an unreadable or empty file, and the
\* signal it returns is decoded from the file it was given.
C18_InvalidInputFails ==
    Preprocessed =>
        /\ EmptyOrUnreadable(inp.file) => ~out.res.ok
        /\ out.res.ok => out.res.val.audio.origin = inp.file.id

VadReturned == out # None /\ out.fn = "vad" /\ out.res.ok

NoFrameVoiced(audio) ==
    ~audio.rms_raises /\ \A i \in 1..Len(audio.rms) : audio.rms[i] <= VadThreshold

\* C20: the list detect_voiced_segments returns is never empty, and when no
\* frame is above the threshold it is the one segment (0, duration).
C20_NeverEmpty ==
    VadReturned =>
        /\ out.res.val # <<>>
        /\ NoFrameVoiced(inp.audio) =>
               out.res.val = << <<QInt(0), Q(inp.audio.len, TargetSr)>> >>

\* A buffer of MaxFrames frames, some at the threshold and none above it,
\* with librosa installed.
C20_Witness ==
    /\ VadReturned /\ inp.librosa
    /\ NoFrameVoiced(inp.audio)
    /\ Len(inp.audio.rms) = MaxFrames
    /\ \E i \in 1..MaxFrames : inp.audio.rms[i] = VadThreshold
    /\ Len(out.res.val) = 1

\* The per-frame flags of a buffer (rms > threshold), frames counted from 0.
VoicedFlag(audio, i) == audio.rms[i + 1] > VadThreshold

NFrames(audio) == Len(audio.rms)

\* The maximal runs of consecutive voiced frames, as <<first, last>>.
MaximalRuns(audio) ==
    { r \in (0..NFrames(audio) - 1) \X (0..NFrames(audio) - 1) :
        /\ r[1] <= r[2]
        /\ \A i \in r[1]..r[2] : VoicedFlag(audio, i)
        /\ r[1] = 0 \/ ~VoicedFlag(audio, r[1] - 1)
        /\ r[2] = NFrames(audio) - 1 \/ ~VoicedFlag(audio, r[2] + 1) }

\* The segment of a run: from the time of its first frame to the time of
\* the first frame after it, or to the duration when it reaches the end.
SegmentOfRun(audio, r) ==
    << Q(r[1] * HopLength, TargetSr),
       IF r[2] = NFrames(audio) - 1 THEN Q(audio.len, TargetSr)
       ELSE Q((r[2] + 1) * HopLength, TargetSr) >>

FrameInSegment(i, seg) ==
    QLE(seg[1], Q(i * HopLength, TargetSr)) /\ QLE(Q(i * HopLength, TargetSr), seg[2])

SegmentsAreTheRuns(audio, segs) ==
    /\ { segs[k] : k \in 1..Len(segs) } = { SegmentOfRun(audio, r) : r \in MaximalRuns(audio) }
    /\ Len(segs) = Cardinality(MaximalRuns(audio))
    /\ \A k \in 1..Len(segs) : QLE(segs[k][1], segs[k][2])
    /\ \A k \in 1..Len(segs) - 1 : QLE(segs[k][2], segs[k + 1][1])
    /\ \A i \in 0..NFrames(audio) - 1 :
          VoicedFlag(audio, i) =>
              Cardinality({ k \in 1..Len(segs) : FrameInSegment(i, segs[k]) }) = 1

VadScanned == VadReturned /\ inp.librosa

SomeFrameVoiced(audio) == \E i \in 0..NFrames(audio) - 1 : VoicedFlag(audio, i)

\* C21 as stated: for every sequence of per-frame flags the segments
\* detect_voiced_segments returns are exactly the maximal runs of voiced
\* frames, in time order, not overlapping, each with start <= end, a run
\* open at the last frame closed at the duration, and every voiced frame in
\* exactly one segment.
C21_SegmentsAreMaximalRuns ==
    VadScanned => SegmentsAreTheRuns(inp.audio, out.res.val)

\* C21 amended: the segments are exactly the maximal runs whenever some
\* frame is voiced; when no frame is voiced the one segment (0, duration)
\* is returned, which is no run of voiced frames.
C21_SegmentsAreMaximalRunsIfAny ==
    VadScanned =>
        IF SomeFrameVoiced(inp.audio)
        THEN SegmentsAreTheRuns(inp.audio, out.res.val)
        ELSE out.res.val = << <<QInt(0), Q(inp.audio.len, TargetSr)>> >>

\* Two runs, the second still open at the last frame of a buffer that ends
\* exactly on a hop boundary.
C21_Witness ==
    /\ VadScanned
    /\ Cardinality(MaximalRuns(inp.audio)) >= 2
    /\ VoicedFlag(inp.audio, NFrames(inp.audio) - 1)
    /\ inp.audio.len = (NFrames(inp.audio) - 1) * HopLength
    /\ Len(out.res.val) = Cardinality(MaximalRuns(inp.audio))

(***************************************************************************)
(* SpecStore: the calls of DatabaseService on voice signatures, made one   *)
(* after the other by any caller.  inp is the call made last and out what  *)
(* it returned.                                                            *)
(***************************************************************************)
StoreEmbeddings == { Vec(<<1, 0, 0, 0>>), L2Normalize(Vec(<<2, 1, 2, 4>>)) }

StoreCounts == {MinSamples, MinSamples + 1}

StoreQualities == {Frac(40 * QUnit, 1), Frac(85 * QUnit, 1)}

Optional(S) == {None} \cup { Some(x) : x \in S }

StoreInit ==
    /\ demo_mode \in BOOLEAN
    /\ librosa = TRUE
    /\ store = <<>>
    /\ nextId = 0
    /\ verifications = <<>>
    /\ proc = <<>>
    /\ last = None
    /\ nreq = 0
    /\ ConnIdle
    /\ FilesIdle
    /\ PureIdle

StoreUnused == <<demo_mode, librosa, verifications, proc, last, nreq, connVars, fileVars>>

\* The row as the calls return it: without its embedding.
Public(row) ==
    [id |-> row.id, name |-> row.name, samples_count |-> row.samples_count,
     quality_score |-> row.quality_score, has_spoken_centroid |-> row.has_spoken_centroid,
     has_singing_centroid |-> row.has_singing_centroid, status |-> row.status]

StoreCreate ==
    /\ nextId < MaxSigs
    /\ \E name \in Names, embedding \in StoreEmbeddings, samples_count \in StoreCounts,
          quality_score \in StoreQualities, has_singing \in SingFlags :
           LET id == nextId + 1
               st == DbCreate(store, id, name, embedding, samples_count, quality_score,
                              has_singing)
           IN /\ store' = st
              /\ nextId' = id
              /\ inp' = [op |-> "create", id |-> id, embedding |-> Some(embedding),
                         samples_count |-> Some(samples_count),
                         quality_score |-> Some(quality_score)]
              /\ out' = Public(RowOf(st, id))
    /\ UNCHANGED StoreUnused

StoreGet ==
    /\ \E id \in SigIds :
           /\ inp' = [op |-> "get", id |-> id, embedding |-> None,
                      samples_count |-> None, quality_score |-> None]
           /\ out' = DbGet(store, id)
    /\ UNCHANGED <<store, nextId, StoreUnused>>

StoreUpdate ==
    /\ \E id \in SigIds, embedding \in Optional(StoreEmbeddings),
          samples_count \in Optional(StoreCounts),
          quality_score \in Optional(StoreQualities),
          has_singing \in Optional({TRUE}) :
           LET st == DbUpdate(store, id, embedding, samples_count, quality_score,
                              has_singing)
           IN /\ store' = st
              /\ inp' = [op |-> "update", id |-> id, embedding |-> embedding,
                         samples_count |-> samples_count,
                         quality_score |-> quality_score]
              /\ out' = IF id \in RowIds(st) THEN Public(RowOf(st, id)) ELSE None
    /\ UNCHANGED <<nextId, StoreUnused>>

StoreDelete ==
    /\ \E id \in SigIds :
           /\ store' = DbDelete(store, id)
           /\ inp' = [op |-> "delete", id |-> id, embedding |-> None,
                      samples_count |-> None, quality_score |-> None]
           /\ out' = (id \in RowIds(store))
    /\ UNCHANGED <<nextId, StoreUnused>>

StoreDeleteAll ==
    /\ store' = DbDeleteAll(store)
    /\ inp' = [op |-> "delete_all", id |-> NoId, embedding |-> None,
               samples_count |-> None, quality_score |-> None]
    /\ out' = Len(store)
    /\ UNCHANGED <<nextId, StoreUnused>>

StoreNext ==
    \/ StoreCreate
    \/ StoreGet
    \/ StoreUpdate
    \/ StoreDelete
    \/ StoreDeleteAll

SpecStore == StoreInit /\ [][StoreNext]_vars

\* The call replaces the embedding, the sample count and the quality of
\* signature id together.
ReplacesAll(call, id) ==
    /\ call.op = "update"
    /\ call.id = id
    /\ call.embedding # None
    /\ call.samples_count # None
    /\ call.quality_score # None

\* C9: the embedding, the sample count and the quality of a stored signature
\* change only in a call that replaces the three of them together.
C9_NeverPartiallyUpdated ==
    [][\A i \in 1..Len(store) :
          (/\ i <= Len(store')
           /\ store'[i].id = store[i].id
           /\ \/ store'[i].embedding # store[i].embedding
              \/ store'[i].samples_count # store[i].samples_count
              \/ store'[i].quality_score # store[i].quality_score)
              => ReplacesAll(inp', store[i].id)]_vars

(***************************************************************************)
(* SpecRequests: the analyze, enroll and verify handlers with what they    *)
(* leave on disk, in blob storage and in the database, one request after   *)
(* the other.  proc is the handler in flight; a library or database call   *)
(* may raise.  The analysis row is kept by the request that created it.    *)
(***************************************************************************)
IdleReq ==
    [pc |-> "idle", kind |-> "none", id |-> 0, file |-> None, files |-> <<>>,
     audio_type |-> "spoken", sid |-> NoId,
     embeddings |-> <<>>, quality_scores |-> <<>>,
     test_embedding |-> None, quality |-> 0,
     best_confidence |-> Rat(0), matched_signature |-> None,
     before |-> None]

\* What is persisted: the signatures, the verification history, the
\* analyses and the audio blobs.
Persisted == [store |-> store, verifications |-> verifications,
              analyses |-> analyses, blobs |-> blobs]

\* The response to the request of handler pr.
Answer(pr, status) ==
    [kind |-> pr.kind, id |-> pr.id, status |-> status, before |-> pr.before]

\* The files uploaded to analyze: one that decodes and one that does not.
AnalyzeFiles ==
    { Unreadable,
      [kind |-> "audio", id |-> "f", len |-> 2 * HopLength, rms |-> <<50, 0, 0>>,
       rms_raises |-> FALSE] }

\* The files uploaded to enroll and verify.
GoodClip == Clip(<<3>>, 3000, 0, 1000)

ReqEnrollUploads ==
    { [i \in 1..(MinSamples - 1) |-> GoodClip],
      [i \in 1..MinSamples |-> GoodClip],
      [i \in 1..MinSamples |-> IF i = 2 THEN Unreadable ELSE GoodClip] }

\* extract_embedding on a file: librosa.load raises on a file it cannot
\* decode; without librosa the file is not opened.
extract_embedding_from(file, have_librosa) ==
    IF have_librosa /\ file = Unreadable
    THEN [ok |-> FALSE, val |-> {}]
    ELSE [ok |-> TRUE, val |-> extract_embedding(file, have_librosa)]

\* The 1:N loop: every listed signature fetched and compared in turn.
RECURSIVE ConsiderAll(_, _, _)
ConsiderAll(pr, ids, st) ==
    IF ids = <<>> THEN pr
    ELSE ConsiderAll(Consider(pr, DbGet(st, Head(ids))), Tail(ids), st)

\* A database call may raise when there is a database to call.
DbOutcomes == IF demo_mode THEN {TRUE} ELSE BOOLEAN

ReqAccepting == proc.pc = "idle" /\ nreq < MaxReq

ReqInit ==
    /\ demo_mode \in BOOLEAN
    /\ librosa \in BOOLEAN
    /\ store = <<>>
    /\ nextId = 0
    /\ verifications = <<>>
    /\ proc = IdleReq
    /\ last = None
    /\ nreq = 0
    /\ ConnIdle
    /\ FilesIdle
    /\ PureIdle

---------------------------------------------------------------------------
\* POST /analyze

\* The check of the content type, and HTTP 400 at once.
ReqAnalyzeStart ==
    /\ ReqAccepting
    /\ \E file \in AnalyzeFiles, audio_type \in AudioTypes, allowed \in BOOLEAN :
          LET pr == [IdleReq EXCEPT !.pc = "a_read", !.kind = "analyze",
                                    !.id = nreq + 1, !.file = file,
                                    !.audio_type = audio_type, !.before = Persisted]
          IN IF ~allowed
             THEN /\ last' = Answer(pr, 400)
                  /\ proc' = proc
             ELSE /\ proc' = pr
                  /\ last' = last
    /\ nreq' = nreq + 1
    /\ UNCHANGED <<demo_mode, librosa, store, nextId, verifications, pureVars, connVars,
                   fileVars>>

\* content = await file.read(); the temporary file is written.
ReqAnalyzeTmp ==
    /\ proc.pc = "a_read"
    /\ tmpfiles' = tmpfiles \cup {<<proc.id, 1>>}
    /\ proc' = [proc EXCEPT !.pc = "a_upload"]
    /\ UNCHANGED <<demo_mode, librosa, store, nextId, verifications, last, nreq, pureVars,
                   connVars, blobs, analyses>>

\* await storage.upload_audio(...), whose failure is only logged; then the
\* preprocessing, the features and the scores, and os.unlink(tmp_path); on
\* an exception the temporary file is removed and HTTP 500 is raised.
ReqAnalyzeProcess ==
    /\ proc.pc = "a_upload"
    /\ \E uploaded \in BOOLEAN :
          blobs' = IF uploaded THEN blobs \cup {proc.id} ELSE blobs
    /\ tmpfiles' = tmpfiles \ {<<proc.id, 1>>}
    /\ IF preprocess_audio(proc.file, proc.audio_type, librosa).ok
       THEN /\ proc' = [proc EXCEPT !.pc = "a_save"]
            /\ last' = last
       ELSE /\ last' = Answer(proc, 500)
            /\ proc' = IdleReq
    /\ UNCHANGED <<demo_mode, librosa, store, nextId, verifications, nreq, pureVars,
                   connVars, analyses>>

\* analysis = await db.create_analysis(...); return {...}
ReqAnalyzeSave ==
    /\ proc.pc = "a_save"
    /\ \E saved \in DbOutcomes :
          IF saved
          THEN /\ analyses' = analyses \cup {proc.id}
               /\ last' = Answer(proc, 200)
          ELSE /\ analyses' = analyses
               /\ last' = Answer(proc, 500)
    /\ proc' = IdleReq
    /\ UNCHANGED <<demo_mode, librosa, store, nextId, verifications, nreq, pureVars,
                   connVars, tmpfiles, blobs>>

---------------------------------------------------------------------------
\* POST /enroll

ReqEnrollStart ==
    /\ ReqAccepting
    /\ nextId < MaxSigs
    /\ \E files \in ReqEnrollUploads :
          LET pr == [IdleReq EXCEPT !.pc = "e_read", !.kind = "enroll",
                                    !.id = nreq + 1, !.files = files,
                                    !.before = Persisted]
          IN IF TooFewSamples(Len(files))
             THEN /\ last' = Answer(pr, 400)
                  /\ proc' = proc
             ELSE /\ proc' = pr
                  /\ last' = last
    /\ nreq' = nreq + 1
    /\ UNCHANGED <<demo_mode, librosa, store, nextId, verifications, pureVars, connVars,
                   fileVars>>

\* One turn of `for file in files`: the temporary file is written,
\* extract_embedding is awaited, and the file is removed if it returned.
ReqEnrollFile ==
    /\ proc.pc = "e_read"
    /\ LET k == Len(proc.embeddings) + 1
           extracted == extract_embedding_from(proc.files[k], librosa)
       IN IF ~extracted.ok
          THEN /\ tmpfiles' = tmpfiles \cup {<<proc.id, k>>}
               /\ last' = Answer(proc, 500)
               /\ proc' = IdleReq
          ELSE /\ tmpfiles' = tmpfiles
               /\ last' = last
               /\ \E r \in extracted.val :
                     proc' = [proc EXCEPT
                                 !.embeddings = Append(@, r.embedding),
                                 !.quality_scores = Append(@, r.quality),
                                 !.pc = IF k = Len(proc.files) THEN "e_save" ELSE "e_read"]
    /\ UNCHANGED <<demo_mode, librosa, store, nextId, verifications, nreq, pureVars,
                   connVars, blobs, analyses>>

\* centroid, avg_quality, await db.create_voice_signature(...), return {...}
ReqEnrollSave ==
    /\ proc.pc = "e_save"
    /\ \E saved \in DbOutcomes :
          IF saved
          THEN LET centroid == aggregate_embeddings(proc.embeddings, "mean").val
                   avg_quality == Frac(SumSeq(proc.quality_scores),
                                       Len(proc.quality_scores))
               IN /\ store' = DbCreate(store, nextId + 1, "ann", centroid,
                                       Len(proc.files), avg_quality, FALSE)
                  /\ nextId' = nextId + 1
                  /\ last' = Answer(proc, 200)
          ELSE /\ UNCHANGED <<store, nextId>>
               /\ last' = Answer(proc, 500)
    /\ proc' = IdleReq
    /\ UNCHANGED <<demo_mode, librosa, verifications, nreq, pureVars, connVars, fileVars>>

---------------------------------------------------------------------------
\* POST /verify

ReqVerifyStart ==
    /\ ReqAccepting
    /\ \E file \in {Unreadable, GoodClip}, sid \in {NoId} \cup VerifyIds :
          proc' = [IdleReq EXCEPT !.pc = "v_read", !.kind = "verify",
                                  !.id = nreq + 1, !.file = file, !.sid = sid,
                                  !.before = Persisted]
    /\ nreq' = nreq + 1
    /\ UNCHANGED <<demo_mode, librosa, store, nextId, verifications, last, pureVars,
                   connVars, fileVars>>

\* The temporary file is written, extract_embedding is awaited, and the
\* file is removed if it returned.
ReqVerifyFile ==
    /\ proc.pc = "v_read"
    /\ LET extracted == extract_embedding_from(proc.file, librosa)
       IN IF ~extracted.ok
          THEN /\ tmpfiles' = tmpfiles \cup {<<proc.id, 1>>}
               /\ last' = Answer(proc, 500)
               /\ proc' = IdleReq
          ELSE /\ tmpfiles' = tmpfiles
               /\ last' = last
               /\ \E r \in extracted.val :
                     proc' = [proc EXCEPT !.test_embedding = r.embedding,
                                          !.quality = r.quality,
                                          !.pc = "v_match"]
    /\ UNCHANGED <<demo_mode, librosa, store, nextId, verifications, nreq, pureVars,
                   connVars, blobs, analyses>>

\* The comparison with the signature named or with every active one, and
\* await db.create_verification(...); a database call that raises ends the
\* request with HTTP 500.
ReqVerifyRecord ==
    /\ proc.pc = "v_match"
    /\ \E done \in DbOutcomes :
          IF done
          THEN LET pr == IF proc.sid # NoId
                         THEN Consider(proc, DbGet(store, proc.sid))
                         ELSE ConsiderAll(proc, DbList(store, "active", demo_mode), store)
                   matched == pr.matched_signature
               IN /\ verifications' =
                         DbCreateVerification(verifications,
                                              IF matched # None THEN matched.id ELSE NoId,
                                              IsMatch(pr.best_confidence, matched),
                                              pr.best_confidence,
                                              AntiSpoofing(pr.quality))
                  /\ last' = Answer(proc, 200)
          ELSE /\ verifications' = verifications
               /\ last' = Answer(proc, 500)
    /\ proc' = IdleReq
    /\ UNCHANGED <<demo_mode, librosa, store, nextId, nreq, pureVars, connVars, fileVars>>

ReqNext ==
    \/ ReqAnalyzeStart
    \/ ReqAnalyzeTmp
    \/ ReqAnalyzeProcess
    \/ ReqAnalyzeSave
    \/ ReqEnrollStart
    \/ ReqEnrollFile
    \/ ReqEnrollSave
    \/ ReqVerifyStart
    \/ ReqVerifyFile
    \/ ReqVerifyRecord

SpecRequests == ReqInit /\ [][ReqNext]_vars

\* The request answered last, with no other request in flight.
Completed == last # None /\ proc.pc = "idle"

\* C23: a request that fails before producing its output leaves no
\* persisted side effect: the signatures, the verification history, the
\* analyses and the audio blobs are as they were when it arrived.
C23_FailedRequestPersistsNothing ==
    (Completed /\ last.status # 200) => Persisted = last.before

\* C29: when a request completes, with a normal response or with an error,
\* every temporary file it created has been removed.
C29_TemporaryFilesRemoved ==
    Completed => \A f \in tmpfiles : f[1] # last.id


(***************************************************************************)
(* SpecConnect: the calls of DatabaseService.connect, disconnect and       *)
(* create_voice_signature, made one after the other.  inp is the           *)
(* configuration (whether settings.database_url names a database) and out  *)
(* the call made last.  store is the voice_signatures table.               *)
(***************************************************************************)
\* The pool asyncpg.create_pool returns.
ThePool == [open |-> TRUE]

\* DemoDataStore()
DemoDataStore == [voice_signatures |-> <<>>]

\* connect: what becomes of pool, demo_mode and demo_store; created tells
\* whether asyncpg.create_pool succeeds when it is called.
connect(configured, created) ==
    IF ~configured
    THEN [pool |-> pool, demo_mode |-> TRUE, demo_store |-> DemoDataStore]
    ELSE IF pool = None
    THEN IF created
         THEN [pool |-> ThePool, demo_mode |-> demo_mode, demo_store |-> demo_store]
         ELSE [pool |-> pool, demo_mode |-> TRUE, demo_store |-> DemoDataStore]
    ELSE [pool |-> pool, demo_mode |-> demo_mode, demo_store |-> demo_store]

\* disconnect: the pool is closed and dropped, and in demo mode the store
\* is dropped; demo_mode is left as it is.
disconnect ==
    [pool |-> None,
     demo_mode |-> demo_mode,
     demo_store |-> IF demo_mode THEN None ELSE demo_store]

\* is_connected, on the values of pool and demo_mode given.
is_connected(the_pool, the_demo_mode) == the_pool # None \/ the_demo_mode

ConnInit ==
    /\ inp \in [configured : BOOLEAN]
    /\ out = None
    /\ SysIdle

ConnConnect ==
    /\ \E created \in BOOLEAN :
          LET c == connect(inp.configured, created)
          IN /\ pool' = c.pool
             /\ demo_mode' = c.demo_mode
             /\ demo_store' = c.demo_store
    /\ out' = [fn |-> "connect", ok |-> TRUE]
    /\ UNCHANGED <<inp, librosa, store, nextId, verifications, proc, last, nreq, fileVars>>

ConnDisconnect ==
    /\ pool' = disconnect.pool
    /\ demo_mode' = disconnect.demo_mode
    /\ demo_store' = disconnect.demo_store
    /\ out' = [fn |-> "disconnect", ok |-> TRUE]
    /\ UNCHANGED <<inp, librosa, store, nextId, verifications, proc, last, nreq, fileVars>>

\* create_voice_signature: in demo mode on demo_store, which raises
\* AttributeError when it is None; otherwise through connection(), which
\* connects first when there is no pool and raises when there is still none.
ConnCreate ==
    /\ nextId < MaxSigs
    /\ \E embedding \in StoreEmbeddings, created \in BOOLEAN :
          LET id == nextId + 1
              row(st) == DbCreate(st, id, "ann", embedding, MinSamples,
                                  Frac(85 * QUnit, 1), FALSE)
          IN IF demo_mode
             THEN IF demo_store = None
                  THEN /\ out' = [fn |-> "create", ok |-> FALSE]
                       /\ UNCHANGED <<pool, demo_mode, demo_store, store, nextId>>
                  ELSE /\ demo_store' = [voice_signatures |-> row(demo_store.voice_signatures)]
                       /\ nextId' = id
                       /\ out' = [fn |-> "create", ok |-> TRUE]
                       /\ UNCHANGED <<pool, demo_mode, store>>
             ELSE LET c == IF pool = None THEN connect(inp.configured, created)
                           ELSE [pool |-> pool, demo_mode |-> demo_mode,
                                 demo_store |-> demo_store]
                  IN /\ pool' = c.pool
                     /\ demo_mode' = c.demo_mode
                     /\ demo_store' = c.demo_store
                     /\ IF c.pool = None
                        THEN /\ out' = [fn |-> "create", ok |-> FALSE]
                             /\ UNCHANGED <<store, nextId>>
                        ELSE /\ store' = row(store)
                             /\ nextId' = id
                             /\ out' = [fn |-> "create", ok |-> TRUE]
    /\ UNCHANGED <<inp, librosa, verifications, proc, last, nreq, fileVars>>

ConnNext == ConnConnect \/ ConnDisconnect \/ ConnCreate

SpecConnect == ConnInit /\ [][ConnNext]_vars

\* C26: in every state reached by connect and disconnect calls, demo_mode
\* implies that demo_store is not None, and is_connected() is false after
\* disconnect.
C26_DemoModeHasStore ==
    /\ demo_mode => demo_store # None
    /\ (out # None /\ out.fn = "disconnect") => ~is_connected(pool, demo_mode)

====
